---- MODULE Spec2Model ----
(***************************************************************************)
(* LFS-MapGen: the map generation pipeline of lfs_mapgen.core               *)
(* (MapGenerator.generate and the stage functions it calls).                *)
(*                                                                         *)
(* A grid is a sequence of rows, each a sequence of tile ids, as in the     *)
(* source (grid[y][x]); coordinates are 0-based pairs <<x, y>>.             *)
(***************************************************************************)
EXTENDS Integers, Sequences, FiniteSets, TLC

VARIABLES
    params,         \* GenerationParams of the MapGenerator
    rng,            \* state of self.random
    pc,             \* position in MapGenerator.generate
    grid,           \* the grid being built
    spawns,         \* SpawnDict: [team1 |-> team_a, team2 |-> team_b]
    stages,         \* stage labels handed to the on_step observer, in order
    mergeIters,     \* iterations of the while-loop of connect_all_floor_regions_in_place
    scan,           \* <<x, y>> the prefab pass is about to visit
    reserved_rects, \* reserved_rects of the running prefab pass
    applied,        \* applied of the running prefab pass
    placed,         \* every committed placement of this run, in order
    run,            \* 1 while the caller's first generate() runs, 2 for its second
    calls,          \* generate() calls made on the current MapGenerator
    first,          \* <<>> or <<MapData>> returned by the first call
    probe           \* a stage function called on its own: its arguments and result

vars == <<params, rng, pc, grid, spawns, stages, mergeIters, scan,
          reserved_rects, applied, placed, run, calls, first, probe>>

-----------------------------------------------------------------------------
(* Bounds of the model *)

\* seeds 0..MaxSeed are tried besides seed = None
MaxSeed == 3
\* the random stream has RngMod states
RngMod == 64
\* iterations of the region-merge loop that are followed
MaxMergeIters == 3

-----------------------------------------------------------------------------
(* Tiles (core/tiles.py) *)

VALID_TILES == {"IW", "WL", "FL", "WA", "HO", "SP"}

-----------------------------------------------------------------------------
(* The random stream: random.Random(seed), reduced to a linear congruential   *)
(* generator over RngMod states.  A draw advances the state; random() is the  *)
(* new state divided by RngMod, a value of [0, 1).                            *)

NextRng(s) == (13 * s + 7) % RngMod

RECURSIVE RngIter(_, _)
RngIter(s, n) == IF n <= 0 THEN s ELSE RngIter(NextRng(s), n - 1)

\* rng.random() < num/den, for the state s the draw left
RandomLt(s, num, den) == s * den < num * RngMod
\* rng.random() > num/den
RandomGt(s, num, den) == s * den > num * RngMod
\* rng.choice(seq): the 1-based index chosen for a sequence of n elements
ChoiceIndex(s, n) == 1 + ((s * n) \div RngMod)

\* A seed is <<>> (None) or <<n>>; None seeds from the system's entropy.
SeededRngIgnoresSeed(seed, entropy) == entropy
SeededRng(seed, entropy) == IF seed = <<>> THEN entropy ELSE seed[1] % RngMod

-----------------------------------------------------------------------------
(* Grid helpers *)

GridH(g) == Len(g)
GridW(g) == IF Len(g) > 0 THEN Len(g[1]) ELSE 0
At(g, x, y) == g[y + 1][x + 1]
SetAt(g, x, y, t) == [g EXCEPT ![y + 1][x + 1] = t]

Abs(n) == IF n < 0 THEN -n ELSE n
Max(a, b) == IF a > b THEN a ELSE b
Min(a, b) == IF a < b THEN a ELSE b

_in_bounds(x, y, w, h) == 0 <= x /\ x < w /\ 0 <= y /\ y < h

\* a mirror about the column width instead of width - 1
mirror_spawns_vertical_about_width(sp, width) ==
    [i \in 1..Len(sp) |-> <<width - sp[i][1], sp[i][2]>>]

mirror_spawns_vertical(sp, width) ==
    [i \in 1..Len(sp) |-> <<(width - 1) - sp[i][1], sp[i][2]>>]

\* carve_disk without the test that spares IndestructibleWall
carve_disk_over_iw(g, cx, cy, r, tile) ==
    [yy \in 1..GridH(g) |-> [xx \in 1..GridW(g) |->
        LET x == xx - 1
            y == yy - 1
        IN IF /\ cy - r <= y /\ y <= cy + r
              /\ cx - r <= x /\ x <= cx + r
              /\ (x - cx) * (x - cx) + (y - cy) * (y - cy) <= r * r
           THEN tile
           ELSE g[yy][xx]]]

carve_disk(g, cx, cy, r, tile) ==
    [yy \in 1..GridH(g) |-> [xx \in 1..GridW(g) |->
        LET x == xx - 1
            y == yy - 1
        IN IF /\ cy - r <= y /\ y <= cy + r
              /\ cx - r <= x /\ x <= cx + r
              /\ (x - cx) * (x - cx) + (y - cy) * (y - cy) <= r * r
              /\ g[yy][xx] # "IW"
           THEN tile
           ELSE g[yy][xx]]]

\* carve_disk around every coordinate of a list, in order
RECURSIVE carve_disks(_, _, _, _)
carve_disks(g, centers, i, r) ==
    IF i > Len(centers) THEN g
    ELSE carve_disks(carve_disk(g, centers[i][1], centers[i][2], r, "FL"),
                     centers, i + 1, r)

-----------------------------------------------------------------------------
(* Cave generator (core/ca_walls.py) *)

_count_wall_neighbors_8(g, x, y) ==
    Cardinality({d \in ({-1, 0, 1} \X {-1, 0, 1}) \ {<<0, 0>>} :
        \/ ~_in_bounds(x + d[1], y + d[2], GridW(g), GridH(g))
        \/ At(g, x + d[1], y + d[2]) \in {"IW", "WL"}})

\* a smoothing pass that writes into the grid it reads, cell after cell in
\* row-major order from cell number k on
RECURSIVE CaStepInPlaceFrom(_, _, _, _)
CaStepInPlaceFrom(g, k, birth_limit, death_limit) ==
    IF k >= GridW(g) * GridH(g) THEN g
    ELSE LET x == k % GridW(g)
             y == k \div GridW(g)
             n == _count_wall_neighbors_8(g, x, y)
             t == IF At(g, x, y) = "IW" THEN "IW"
                  ELSE IF At(g, x, y) = "WL"
                       THEN (IF n >= death_limit THEN "WL" ELSE "FL")
                       ELSE (IF n >= birth_limit THEN "WL" ELSE "FL")
         IN CaStepInPlaceFrom(SetAt(g, x, y, t), k + 1, birth_limit, death_limit)

_ca_step_in_place(g, birth_limit, death_limit) ==
    CaStepInPlaceFrom(g, 0, birth_limit, death_limit)

_ca_step(g, birth_limit, death_limit) ==
    [yy \in 1..GridH(g) |-> [xx \in 1..GridW(g) |->
        LET n == _count_wall_neighbors_8(g, xx - 1, yy - 1)
        IN IF g[yy][xx] = "IW" THEN "IW"
           ELSE IF g[yy][xx] = "WL"
                THEN (IF n >= death_limit THEN "WL" ELSE "FL")
                ELSE (IF n >= birth_limit THEN "WL" ELSE "FL")]]

\* the two border loops of generate_ca_walls_grid
ForceBorder(g, width, height) ==
    [yy \in 1..height |-> [xx \in 1..width |->
        IF yy = 1 \/ yy = height \/ xx = 1 \/ xx = width THEN "IW" ELSE g[yy][xx]]]

RECURSIVE CaPasses(_, _, _, _, _, _)
CaPasses(g, n, width, height, birth_limit, death_limit) ==
    IF n <= 0 THEN g
    ELSE CaPasses(ForceBorder(_ca_step(g, birth_limit, death_limit), width, height),
                  n - 1, width, height, birth_limit, death_limit)

\* whether a border loop raises IndexError: grid[0][x] on a grid without
\* rows, or grid[y][0] on a row without cells
BorderRaises(width, height) ==
    \/ (width > 0 /\ height <= 0)
    \/ (height > 0 /\ width <= 0)

\* one draw per cell, row-major; probabilities are given in percent
RandomInit(s, width, height, wall_pct) ==
    [yy \in 1..height |-> [xx \in 1..width |->
        IF RandomLt(RngIter(s, (yy - 1) * width + xx), wall_pct, 100)
        THEN "WL" ELSE "FL"]]

generate_ca_walls_grid(s, width, height, wall_pct, passes, birth_limit, death_limit) ==
    CaPasses(ForceBorder(RandomInit(s, width, height, wall_pct), width, height),
             Max(0, passes), width, height, birth_limit, death_limit)

-----------------------------------------------------------------------------
(* Connectivity engine (core/connectivity.py) *)

_neighbors8(x, y) ==
    << <<x - 1, y - 1>>, <<x, y - 1>>, <<x + 1, y - 1>>,
       <<x - 1, y>>,                   <<x + 1, y>>,
       <<x - 1, y + 1>>, <<x, y + 1>>, <<x + 1, y + 1>> >>

_neighbors4(x, y) == << <<x - 1, y>>, <<x + 1, y>>, <<x, y - 1>>, <<x, y + 1>> >>

\* the for-loop over the four neighbours inside _flood_component
RECURSIVE FloodPush(_, _, _, _, _)
FloodPush(g, nbrs, i, stack, visited) ==
    IF i > Len(nbrs) THEN [stack |-> stack, visited |-> visited]
    ELSE LET n == nbrs[i]
         IN IF \/ ~_in_bounds(n[1], n[2], GridW(g), GridH(g))
               \/ n \in visited
               \/ At(g, n[1], n[2]) # "FL"
            THEN FloodPush(g, nbrs, i + 1, stack, visited)
            ELSE FloodPush(g, nbrs, i + 1, Append(stack, n), visited \cup {n})

RECURSIVE FloodLoop(_, _, _, _)
FloodLoop(g, stack, visited, comp) ==
    IF stack = <<>> THEN [comp |-> comp, visited |-> visited]
    ELSE LET cur == stack[Len(stack)]
             st  == FloodPush(g, _neighbors4(cur[1], cur[2]), 1,
                              SubSeq(stack, 1, Len(stack) - 1), visited)
         IN FloodLoop(g, st.stack, st.visited, Append(comp, cur))

_flood_component(g, start, visited) ==
    FloodLoop(g, <<start>>, visited \cup {start}, <<>>)

RECURSIVE FindComponents(_, _, _, _)
FindComponents(g, k, visited, comps) ==
    IF k >= GridW(g) * GridH(g) THEN comps
    ELSE LET x == k % GridW(g)
             y == k \div GridW(g)
         IN IF At(g, x, y) # "FL" \/ <<x, y>> \in visited
            THEN FindComponents(g, k + 1, visited, comps)
            ELSE LET r == _flood_component(g, <<x, y>>, visited)
                 IN FindComponents(g, k + 1, r.visited, Append(comps, r.comp))

_find_floor_components(g) == FindComponents(g, 0, {}, <<>>)

\* index (1-based) of the first component holding the cell, 0 for None
_component_index_of_cell(comps, cell) ==
    LET hits == {i \in 1..Len(comps) : \E j \in 1..Len(comps[i]) : comps[i][j] = cell}
    IN IF hits = {} THEN 0 ELSE CHOOSE i \in hits : \A j \in hits : i <= j

_tile_cost(t) ==
    IF t = "FL" THEN 0
    ELSE IF t = "WL" THEN 6
    ELSE IF t = "IW" THEN 10000000
    ELSE 2

_heur(a, b) == Abs(a[1] - b[1]) + Abs(a[2] - b[2])

\* gscore.get(n, 1_000_000_000)
GScoreGet(gscore, n) == IF n \in DOMAIN gscore THEN gscore[n] ELSE 1000000000

\* the for-loop over the four neighbours inside _a_star
RECURSIVE AStarRelax(_, _, _, _, _, _)
AStarRelax(g, goal, cur, nbrs, i, st) ==
    IF i > Len(nbrs) THEN st
    ELSE LET n == nbrs[i]
         IN IF \/ ~_in_bounds(n[1], n[2], GridW(g), GridH(g))
               \/ At(g, n[1], n[2]) = "IW"
            THEN AStarRelax(g, goal, cur, nbrs, i + 1, st)
            ELSE LET tentative == st.gscore[cur] + _tile_cost(At(g, n[1], n[2]))
                 IN IF tentative < GScoreGet(st.gscore, n)
                    THEN AStarRelax(g, goal, cur, nbrs, i + 1,
                            [came_from |-> [c \in DOMAIN st.came_from \cup {n} |->
                                               IF c = n THEN cur ELSE st.came_from[c]],
                             gscore    |-> [c \in DOMAIN st.gscore \cup {n} |->
                                               IF c = n THEN tentative ELSE st.gscore[c]],
                             counter   |-> st.counter + 1,
                             heap      |-> st.heap \cup
                                 {<<tentative + _heur(n, goal), st.counter + 1, n>>}])
                    ELSE AStarRelax(g, goal, cur, nbrs, i + 1, st)

\* path = [cur]; while cur in came_from: ...; path.reverse()
RECURSIVE Reconstruct(_, _, _)
Reconstruct(came_from, cur, path) ==
    IF cur \in DOMAIN came_from
    THEN Reconstruct(came_from, came_from[cur], <<came_from[cur]>> \o path)
    ELSE path

\* heappop: the least entry by (f, insertion counter)
HeapTop(heap) ==
    CHOOSE e \in heap : \A o \in heap :
        e[1] < o[1] \/ (e[1] = o[1] /\ e[2] <= o[2])

RECURSIVE AStarLoop(_, _, _)
AStarLoop(g, goal, st) ==
    IF st.heap = {} THEN <<>>
    ELSE LET top == HeapTop(st.heap)
             cur == top[3]
         IN IF cur = goal THEN Reconstruct(st.came_from, cur, <<cur>>)
            ELSE AStarLoop(g, goal,
                    AStarRelax(g, goal, cur, _neighbors4(cur[1], cur[2]), 1,
                               [st EXCEPT !.heap = st.heap \ {top}]))

\* the path as a sequence of cells; <<>> stands for None
_a_star(g, start, goal) ==
    AStarLoop(g, goal,
        [came_from |-> [c \in {} |-> <<0, 0>>],
         gscore    |-> [c \in {start} |-> 0],
         counter   |-> 0,
         heap      |-> {<<0, 0, start>>}])

\* the greedy line walk; returns the path and the random state it left
RECURSIVE FallbackLoop(_, _, _, _, _)
FallbackLoop(x, y, b, s, path) ==
    IF <<x, y>> = b THEN [path |-> path, rng |-> s]
    ELSE LET dx == IF x = b[1] THEN 0 ELSE (IF b[1] > x THEN 1 ELSE -1)
             dy == IF y = b[2] THEN 0 ELSE (IF b[2] > y THEN 1 ELSE -1)
         IN IF dx # 0 /\ dy # 0
            THEN LET s1 == NextRng(s)
                 IN IF RandomLt(s1, 1, 2)
                    THEN FallbackLoop(x + dx, y, b, s1, Append(path, <<x + dx, y>>))
                    ELSE FallbackLoop(x, y + dy, b, s1, Append(path, <<x, y + dy>>))
            ELSE IF dx # 0
                 THEN FallbackLoop(x + dx, y, b, s, Append(path, <<x + dx, y>>))
                 ELSE FallbackLoop(x, y + dy, b, s, Append(path, <<x, y + dy>>))

_fallback_path(a, b, s) == FallbackLoop(a[1], a[2], b, s, <<a>>)

\* path = _a_star(...); if not path: path = _fallback_path(...)
PathOrFallback(g, a, b, s) ==
    LET p == _a_star(g, a, b)
    IN IF p # <<>> THEN [path |-> p, rng |-> s] ELSE _fallback_path(a, b, s)

\* a corridor carver that leaves BreakableWall instead of Floor on the path
_carve_path_as_wall(g, path, radius) ==
    [yy \in 1..GridH(g) |-> [xx \in 1..GridW(g) |->
        IF /\ \E i \in 1..Len(path) : path[i] = <<xx - 1, yy - 1>>
           /\ g[yy][xx] # "IW"
        THEN "WL"
        ELSE g[yy][xx]]]

_carve_path(g, path, radius) == carve_disks(g, path, 1, radius)

_all_floor_cells(g) ==
    LET RECURSIVE Collect(_, _)
        Collect(k, out) ==
            IF k >= GridW(g) * GridH(g) THEN out
            ELSE IF At(g, k % GridW(g), k \div GridW(g)) = "FL"
                 THEN Collect(k + 1, Append(out, <<k % GridW(g), k \div GridW(g)>>))
                 ELSE Collect(k + 1, out)
    IN Collect(0, <<>>)

\* the primary loop of connect_spawns_in_place: every other spawn to the root
RECURSIVE ConnectTargets(_, _, _, _, _, _)
ConnectTargets(g, sp, i, s, corridor_radius, protected_radius) ==
    IF i > Len(sp) THEN [grid |-> g, rng |-> s]
    ELSE LET root == sp[1]
             target == sp[i]
             pf == PathOrFallback(g, root, target, s)
             g1 == _carve_path(g, pf.path, corridor_radius)
             g2 == carve_disk(g1, root[1], root[2], protected_radius, "FL")
             g3 == carve_disk(g2, target[1], target[2], protected_radius, "FL")
         IN ConnectTargets(g3, sp, i + 1, pf.rng, corridor_radius, protected_radius)

\* the extra-corridor loop of connect_spawns_in_place
RECURSIVE ExtraCorridors(_, _, _, _, _)
ExtraCorridors(g, floors, n, s, r) ==
    IF n <= 0 THEN [grid |-> g, rng |-> s]
    ELSE LET s1 == NextRng(s)
             a  == floors[ChoiceIndex(s1, Len(floors))]
             s2 == NextRng(s1)
             b  == floors[ChoiceIndex(s2, Len(floors))]
             p  == IF a = b THEN <<>> ELSE _a_star(g, a, b)
         IN ExtraCorridors(IF p # <<>> THEN _carve_path(g, p, r) ELSE g,
                           floors, n - 1, s2, r)

connect_spawns_in_place(g, sp, s, corridor_radius, protected_radius, extra_corridors, extra_corridor_radius) ==
    IF sp = <<>> THEN [grid |-> g, rng |-> s]
    ELSE LET g0 == carve_disks(g, sp, 1, protected_radius)
             c  == ConnectTargets(g0, sp, 2, s, corridor_radius, protected_radius)
             floors == _all_floor_cells(c.grid)
         IN IF extra_corridors > 0 /\ Len(floors) >= 2
            THEN ExtraCorridors(c.grid, floors, extra_corridors, c.rng,
                                extra_corridor_radius)
            ELSE c

\* comp if len(comp) <= cap else [comp[i] for i in range(0, len(comp), max(1, len(comp) // cap))]
MainSampleCap == 400
CompSampleCap == 200
Samples(comp, cap) ==
    IF Len(comp) <= cap THEN comp
    ELSE LET step == Max(1, Len(comp) \div cap)
             n == (Len(comp) + step - 1) \div step
         IN [i \in 1..n |-> comp[(i - 1) * step + 1]]

\* max(range(len(comps)), key=lambda i: len(comps[i])): the first of the largest
LargestComponent(comps) ==
    CHOOSE i \in 1..Len(comps) :
        /\ \A j \in 1..Len(comps) : Len(comps[j]) <= Len(comps[i])
        /\ \A j \in 1..(i - 1) : Len(comps[j]) < Len(comps[i])

MainIndex(comps, sp) ==
    LET si == IF sp # <<>> THEN _component_index_of_cell(comps, sp[1]) ELSE 0
    IN IF si # 0 THEN si ELSE LargestComponent(comps)

\* the nested sample loops: the first pair, in loop order, of least Manhattan
\* distance; <<>> when the loops visit no pair (best_pair stays None)
BestPair(comps, main_idx) ==
    LET main_samples == Samples(comps[main_idx], MainSampleCap)
        \* <<i, ia, ib>>: component, index in main_samples, index in comp_samples
        Cand == UNION {{<<i, ia, ib>> : ia \in 1..Len(main_samples),
                                       ib \in 1..Len(Samples(comps[i], CompSampleCap))} :
                       i \in (1..Len(comps)) \ {main_idx}}
        D(t) == _heur(main_samples[t[2]], Samples(comps[t[1]], CompSampleCap)[t[3]])
        Before(t, u) == \/ t[1] < u[1]
                        \/ t[1] = u[1] /\ t[2] < u[2]
                        \/ t[1] = u[1] /\ t[2] = u[2] /\ t[3] <= u[3]
    IN IF Cand = {} THEN <<>>
       ELSE LET best == CHOOSE t \in Cand : \A u \in Cand :
                            D(t) < D(u) \/ (D(t) = D(u) /\ Before(t, u))
            IN <<main_samples[best[2]],
                 Samples(comps[best[1]], CompSampleCap)[best[3]]>>

\* the body of the while-loop of connect_all_floor_regions_in_place after the
\* test len(comps) <= 1 failed; returned is TRUE when the loop returns early
MergeIteration(g, sp, s, corridor_radius, protected_radius) ==
    LET comps == _find_floor_components(g)
        pair  == BestPair(comps, MainIndex(comps, sp))
    IN IF pair = <<>> THEN [grid |-> g, rng |-> s, returned |-> TRUE]
       ELSE LET pf == PathOrFallback(g, pair[1], pair[2], s)
                g1 == _carve_path(g, pf.path, corridor_radius)
            IN [grid |-> carve_disks(g1, sp, 1, protected_radius),
                rng |-> pf.rng, returned |-> FALSE]

\* a conversion that looks at the 4 orthogonal neighbours only
_touches_floor_orthogonally(g, x, y) ==
    \E i \in 1..4 :
        LET n == _neighbors4(x, y)[i]
        IN _in_bounds(n[1], n[2], GridW(g), GridH(g)) /\ At(g, n[1], n[2]) = "FL"

\* convert_hidden_walls_to_indestructible_in_place, lines 275-280
_touches_floor(g, x, y) ==
    \E i \in 1..8 :
        LET n == _neighbors8(x, y)[i]
        IN _in_bounds(n[1], n[2], GridW(g), GridH(g)) /\ At(g, n[1], n[2]) = "FL"

convert_hidden_walls_to_indestructible_in_place(g) ==
    [yy \in 1..GridH(g) |-> [xx \in 1..GridW(g) |->
        IF g[yy][xx] = "WL" /\ ~_touches_floor(g, xx - 1, yy - 1)
        THEN "IW" ELSE g[yy][xx]]]

-----------------------------------------------------------------------------
(* Prefab engine (core/prefabs.py) *)

\* A prefab is [id, category, size, reserve, probability, before, after]:
\* size and reserve are pairs, probability is in percent, before is a sequence
\* of h rows of w tokens, after a sequence of patches [x, y, tile].

_is_solid(tile) == tile \in {"WL", "IW"}

_token_matches(tile, token) ==
    IF token = "ANY" THEN TRUE
    ELSE IF token = "SOLID" THEN _is_solid(tile)
    ELSE IF token = "MT:FLOOR" THEN tile = "FL"
    ELSE IF token = "MT:WALL" THEN tile = "WL"
    ELSE IF token = "MT:IW" THEN tile = "IW"
    ELSE FALSE

\* a mapping that hands an unknown logical name on as the tile id
_logical_to_tile_id_or_name(logical) ==
    IF logical = "FLOOR" THEN "FL"
    ELSE IF logical = "WALL_BREAKABLE" THEN "WL"
    ELSE IF logical = "WALL_INBREAKABLE" THEN "IW"
    ELSE IF logical = "SPIKE" THEN "SP"
    ELSE IF logical = "WATER" THEN "WA"
    ELSE IF logical = "HOLE" THEN "HO"
    ELSE logical

\* "None" stands for the None of a logical name the mapping does not hold
_logical_to_tile_id(logical) ==
    IF logical = "FLOOR" THEN "FL"
    ELSE IF logical = "WALL_BREAKABLE" THEN "WL"
    ELSE IF logical = "WALL_INBREAKABLE" THEN "IW"
    ELSE IF logical = "SPIKE" THEN "SP"
    ELSE IF logical = "WATER" THEN "WA"
    ELSE IF logical = "HOLE" THEN "HO"
    ELSE "None"

_rotate_grid_cw(before) ==
    LET h == Len(before)
        w == IF h > 0 THEN Len(before[1]) ELSE 0
    IN [x \in 1..w |-> [y \in 1..h |-> before[h - y + 1][x]]]

_rotate_patch_cw_clamped(patch, w, h) ==
    [x |-> Max(0, h - 1 - patch.y), y |-> patch.x, tile |-> patch.tile]

_rotate_patch_cw(patch, w, h) == [x |-> h - 1 - patch.y, y |-> patch.x, tile |-> patch.tile]

_rotate_prefab_cw(prefab) ==
    [id          |-> prefab.id,
     category    |-> prefab.category,
     size        |-> <<prefab.size[2], prefab.size[1]>>,
     reserve     |-> <<prefab.reserve[2], prefab.reserve[1]>>,
     probability |-> prefab.probability,
     before      |-> _rotate_grid_cw(prefab.before),
     after       |-> [i \in 1..Len(prefab.after) |->
                        _rotate_patch_cw(prefab.after[i], prefab.size[1], prefab.size[2])]]

\* the variants r0..r3 of one prefab without the repeated ones (the key of the
\* source holds every field but the id, which the variants share)
RECURSIVE Uniq(_, _, _)
Uniq(rs, i, out) ==
    IF i > Len(rs) THEN out
    ELSE IF \E j \in 1..Len(out) : out[j] = rs[i]
         THEN Uniq(rs, i + 1, out)
         ELSE Uniq(rs, i + 1, Append(out, rs[i]))

RECURSIVE ExpandFrom(_, _)
ExpandFrom(prefabs, i) ==
    IF i > Len(prefabs) THEN <<>>
    ELSE LET r0 == prefabs[i]
             r1 == _rotate_prefab_cw(r0)
             r2 == _rotate_prefab_cw(r1)
             r3 == _rotate_prefab_cw(r2)
         IN Uniq(<<r0, r1, r2, r3>>, 1, <<>>) \o ExpandFrom(prefabs, i + 1)

expand_prefabs_with_rotations(prefabs) == ExpandFrom(prefabs, 1)

\* the strict overlap test a slip of the comparison would give
_rects_overlap_strict(a, b) ==
    ~(a[3] <= b[1] \/ b[3] <= a[1] \/ a[4] <= b[2] \/ b[4] <= a[2])

_rects_overlap(a, b) ==
    ~(a[3] < b[1] \/ b[3] < a[1] \/ a[4] < b[2] \/ b[4] < a[2])

_in_bounds_rect(x1, y1, x2, y2, w, h) ==
    0 <= x1 /\ x1 < w /\ 0 <= y1 /\ y1 < h /\ 0 <= x2 /\ x2 < w /\ 0 <= y2 /\ y2 < h

\* a reservation that is the pattern's own rectangle
_compute_reserve_rect_unpadded(x, y, pw, ph, rw, rh) ==
    <<x, y, x + pw - 1, y + ph - 1>>

_compute_reserve_rect(x, y, pw, ph, rw, rh) ==
    LET pad_x == Max(0, (rw - pw) \div 2)
        pad_y == Max(0, (rh - ph) \div 2)
    IN <<x - pad_x, y - pad_y, x + pw - 1 + pad_x, y + ph - 1 + pad_y>>

_protected_cell(x, y, centers, radius) ==
    \E i \in 1..Len(centers) :
        (x - centers[i][1]) * (x - centers[i][1])
          + (y - centers[i][2]) * (y - centers[i][2]) <= radius * radius

\* pools[category]: the variants of the category, in order; sizes: the sizes
\* of the pool by descending (area, width, height)
CategoryPool(prefabs, category) ==
    SelectSeq(expand_prefabs_with_rotations(prefabs), LAMBDA p : p.category = category)

SizeKeyLess(a, b) ==
    \/ a[1] * a[2] < b[1] * b[2]
    \/ a[1] * a[2] = b[1] * b[2] /\ a[1] < b[1]
    \/ a[1] * a[2] = b[1] * b[2] /\ a[1] = b[1] /\ a[2] < b[2]

RECURSIVE SortedDesc(_)
SortedDesc(S) ==
    IF S = {} THEN <<>>
    ELSE LET m == CHOOSE a \in S : \A b \in S : b = a \/ SizeKeyLess(b, a)
         IN <<m>> \o SortedDesc(S \ {m})

PoolSizes(pool) == SortedDesc({pool[i].size : i \in 1..Len(pool)})

\* VariantFits without the test against the committed reservations
VariantFitsIgnoringReserved(g, prefab, x, y, centers, radius, rects) ==
    LET pw == prefab.size[1]
        ph == prefab.size[2]
        r  == _compute_reserve_rect(x, y, pw, ph, prefab.reserve[1], prefab.reserve[2])
    IN /\ _in_bounds_rect(r[1], r[2], r[3], r[4], GridW(g), GridH(g))
       /\ ~(radius > 0 /\ \E yy \in r[2]..r[4] : \E xx \in r[1]..r[3] :
                            _protected_cell(xx, yy, centers, radius))
       /\ \A dy \in 0..(ph - 1) : \A dx \in 0..(pw - 1) :
              _token_matches(At(g, x + dx, y + dy), prefab.before[dy + 1][dx + 1])

\* the tests a variant passes to join matches at anchor (x, y)
VariantFits(g, prefab, x, y, centers, radius, rects) ==
    LET pw == prefab.size[1]
        ph == prefab.size[2]
        r  == _compute_reserve_rect(x, y, pw, ph, prefab.reserve[1], prefab.reserve[2])
    IN /\ _in_bounds_rect(r[1], r[2], r[3], r[4], GridW(g), GridH(g))
       /\ ~(radius > 0 /\ \E yy \in r[2]..r[4] : \E xx \in r[1]..r[3] :
                            _protected_cell(xx, yy, centers, radius))
       /\ ~\E i \in 1..Len(rects) : _rects_overlap(r, rects[i])
       /\ \A dy \in 0..(ph - 1) : \A dx \in 0..(pw - 1) :
              _token_matches(At(g, x + dx, y + dy), prefab.before[dy + 1][dx + 1])

\* the for-loop over sizes at one anchor: the variant that is committed
\* (chosen = <<prefab>>) or none (<<>>), and the random state left
RECURSIVE TrySizes(_, _, _, _, _, _, _, _, _, _)
TrySizes(g, pool, sizes, i, x, y, s, centers, radius, rects) ==
    IF i > Len(sizes) THEN [chosen |-> <<>>, rng |-> s]
    ELSE LET pw == sizes[i][1]
             ph == sizes[i][2]
             skip == TrySizes(g, pool, sizes, i + 1, x, y, s, centers, radius, rects)
         IN IF x + pw > GridW(g) \/ y + ph > GridH(g) THEN skip
            ELSE IF radius > 0 /\ _protected_cell(x, y, centers, radius) THEN skip
            ELSE LET matches == SelectSeq(pool, LAMBDA p :
                                    /\ p.size = sizes[i]
                                    /\ VariantFits(g, p, x, y, centers, radius, rects))
                 IN IF matches = <<>> THEN skip
                    ELSE LET s1 == NextRng(s)
                             chosen == matches[ChoiceIndex(s1, Len(matches))]
                             s2 == NextRng(s1)
                         IN IF chosen.probability < 100
                            THEN IF RandomGt(s2, chosen.probability, 100)
                                 THEN TrySizes(g, pool, sizes, i + 1, x, y, s2,
                                               centers, radius, rects)
                                 ELSE [chosen |-> <<chosen>>, rng |-> s2]
                            ELSE [chosen |-> <<chosen>>, rng |-> s1]

\* a test that draws for every chosen prefab, whatever its probability
DrawsAndRejectsAlways(probability, s) ==
    [drew |-> TRUE, rejected |-> RandomGt(NextRng(s), probability, 100)]

\* line 344: chosen.probability < 1.0 and rng.random() > chosen.probability,
\* for the state s the stream is in; drew tells whether random() was called
DrawsAndRejects(probability, s) ==
    IF probability < 100
    THEN [drew |-> TRUE, rejected |-> RandomGt(NextRng(s), probability, 100)]
    ELSE [drew |-> FALSE, rejected |-> FALSE]

\* lines 292-345, the body of the for-loop over sizes for one size at anchor
\* (x, y): outcome "skip" (continue before any draw), "reject" (the
\* probability draw discards the chosen prefab) or "commit"
TryOneSize(g, pool, size, x, y, s, centers, radius, rects) ==
    LET none == [outcome |-> "skip", chosen |-> <<>>, rng |-> s]
    IN IF x + size[1] > GridW(g) \/ y + size[2] > GridH(g) THEN none
       ELSE IF radius > 0 /\ _protected_cell(x, y, centers, radius) THEN none
       ELSE LET matches == SelectSeq(pool, LAMBDA p :
                               /\ p.size = size
                               /\ VariantFits(g, p, x, y, centers, radius, rects))
            IN IF matches = <<>> THEN none
               ELSE LET s1 == NextRng(s)
                        chosen == matches[ChoiceIndex(s1, Len(matches))]
                        d == DrawsAndRejects(chosen.probability, s1)
                    IN [outcome |-> IF d.rejected THEN "reject" ELSE "commit",
                        chosen |-> <<chosen>>,
                        rng |-> IF d.drew THEN NextRng(s1) ELSE s1]

\* Python's list index: -n..n-1 are valid, a negative one counts from the end
PyIndexOk(i, n) == -n <= i /\ i < n
PyIndex(i, n) == IF i < 0 THEN n + i ELSE i

\* a patch that writes whatever the destination holds
PatchWritesAlways(dest, tile_id) == TRUE

\* whether a patch of tile_id is written over a destination tile
PatchWrites(dest, tile_id) == ~(dest = "IW" /\ tile_id # "IW")

\* the for-loop over chosen.after from patch i on: the grid it leaves, the
\* cells it wrote, the cells it spared (IndestructibleWall under a patch of
\* another tile), and raised = TRUE when grid[ty][tx] raised IndexError
RECURSIVE PatchLoop(_, _, _, _, _, _)
PatchLoop(g, after, i, x, y, acc) ==
    IF i > Len(after) THEN [acc EXCEPT !.grid = g]
    ELSE LET tx == x + after[i].x
             ty == y + after[i].y
             tile_id == _logical_to_tile_id(after[i].tile)
         IN IF tile_id = "None" THEN PatchLoop(g, after, i + 1, x, y, acc)
            ELSE IF ~PyIndexOk(ty, GridH(g)) \/ ~PyIndexOk(tx, GridW(g))
                 THEN [acc EXCEPT !.grid = g, !.raised = TRUE]
            ELSE LET ax == PyIndex(tx, GridW(g))
                     ay == PyIndex(ty, GridH(g))
                 IN IF PatchWrites(At(g, ax, ay), tile_id)
                    THEN PatchLoop(SetAt(g, ax, ay, tile_id), after, i + 1, x, y,
                            [acc EXCEPT !.written = @ \cup {<<ax, ay>>}])
                    ELSE PatchLoop(g, after, i + 1, x, y,
                            [acc EXCEPT !.spared = @ \cup {<<ax, ay>>}])

ApplyPatches(g, after, x, y) ==
    PatchLoop(g, after, 1, x, y,
              [grid |-> g, written |-> {}, spared |-> {}, raised |-> FALSE])

-----------------------------------------------------------------------------
(* Hazard placer (core/features.py); percentages are given in percent *)

_is_floor(g, x, y) == At(g, x, y) = "FL"

\* a protection test that protects nothing
_protected_nowhere(x, y, centers, radius) == FALSE

_protected(x, y, centers, radius) ==
    \E i \in 1..Len(centers) :
        (x - centers[i][1]) * (x - centers[i][1])
          + (y - centers[i][2]) * (y - centers[i][2]) <= radius * radius

\* the row-major scan of _collect_floor_cells from cell number k on
RECURSIVE CollectFrom(_, _, _, _)
CollectFrom(g, k, centers, radius) ==
    IF k >= GridW(g) * GridH(g) THEN <<>>
    ELSE LET x == k % GridW(g)
             y == k \div GridW(g)
             rest == CollectFrom(g, k + 1, centers, radius)
         IN IF At(g, x, y) # "FL" \/ _protected(x, y, centers, radius)
            THEN rest
            ELSE <<<<x, y>>>> \o rest

_collect_floor_cells(g, centers, radius) ==
    IF GridH(g) = 0 \/ GridW(g) = 0 THEN <<>> ELSE CollectFrom(g, 0, centers, radius)

\* random.shuffle: for i from len-1 down to 1, swap x[i] with x[randbelow(i+1)]
\* (i is 0-based; one draw of the stream per randbelow)
RECURSIVE ShuffleLoop(_, _, _)
ShuffleLoop(xs, i, s) ==
    IF i < 1 THEN [list |-> xs, rng |-> s]
    ELSE LET s1 == NextRng(s)
             j  == (s1 * (i + 1)) \div RngMod
         IN ShuffleLoop([xs EXCEPT ![i + 1] = xs[j + 1], ![j + 1] = xs[i + 1]], i - 1, s1)

Shuffle(xs, s) == ShuffleLoop(xs, Len(xs) - 1, s)

\* the for-loop of _place_percent over candidates[0 .. n-1]
RECURSIVE PlaceLoop(_, _, _, _, _)
PlaceLoop(g, cands, i, n, tile) ==
    IF i > n THEN g
    ELSE LET c == cands[i]
         IN PlaceLoop(IF At(g, c[1], c[2]) = "FL" THEN SetAt(g, c[1], c[2], tile) ELSE g,
                      cands, i + 1, n, tile)

\* a _place_percent that counts with the ceiling of len * percent
PlaceCountCeil(len, percent) == (len * percent + 99) \div 100

\* n = int(len(candidates) * percent), for percent > 0
PlaceCount(len, percent) == (len * percent) \div 100

_place_percent(g, s, candidates, percent, tile) ==
    IF percent <= 0 \/ candidates = <<>> THEN [grid |-> g, rng |-> s]
    ELSE LET n == PlaceCount(Len(candidates), percent)
         IN IF n <= 0 THEN [grid |-> g, rng |-> s]
            ELSE LET sh == Shuffle(candidates, s)
                 IN [grid |-> PlaceLoop(g, sh.list, 1, Min(n, Len(candidates)), tile),
                     rng |-> sh.rng]

\* place_features_in_place: water, then holes, then spikes, the candidates
\* collected again before each
place_features_in_place(g, s, water_percent, holes_percent, spikes_percent, protected_radius, protected_centers) ==
    LET wa == _place_percent(g, s,
                  _collect_floor_cells(g, protected_centers, protected_radius),
                  water_percent, "WA")
        ho == _place_percent(wa.grid, wa.rng,
                  _collect_floor_cells(wa.grid, protected_centers, protected_radius),
                  holes_percent, "HO")
    IN _place_percent(ho.grid, ho.rng,
           _collect_floor_cells(ho.grid, protected_centers, protected_radius),
           spikes_percent, "SP")

-----------------------------------------------------------------------------
(* Inputs: the parameter sets and prefab libraries the model runs *)

Patch(x, y, tile) == [x |-> x, y |-> y, tile |-> tile]

\* a pillar on open floor, keeping one free cell around it
PrefabPillar ==
    [id |-> "pillar", category |-> "STRUCTURE", size |-> <<1, 1>>, reserve |-> <<3, 3>>,
     probability |-> 100, before |-> << <<"MT:FLOOR">> >>,
     after |-> << Patch(0, 0, "WALL_BREAKABLE") >>]

\* a two-cell pool, placed half of the time
PrefabPool ==
    [id |-> "pool", category |-> "FEATURE", size |-> <<2, 1>>, reserve |-> <<2, 1>>,
     probability |-> 50, before |-> << <<"MT:FLOOR", "MT:FLOOR">> >>,
     after |-> << Patch(0, 0, "WATER"), Patch(1, 0, "WATER") >>]

\* a 2x2 block matching anything, placed half of the time
PrefabBunker ==
    [id |-> "bunker", category |-> "STRUCTURE", size |-> <<2, 2>>, reserve |-> <<2, 2>>,
     probability |-> 50,
     before |-> << <<"ANY", "SOLID">>, <<"ANY", "ANY">> >>,
     after |-> << Patch(0, 0, "FLOOR"), Patch(1, 1, "WALL_INBREAKABLE") >>]

\* a spike on a floor cell
PrefabSpike ==
    [id |-> "spike", category |-> "FEATURE", size |-> <<1, 1>>, reserve |-> <<1, 1>>,
     probability |-> 50, before |-> << <<"MT:FLOOR">> >>,
     after |-> << Patch(0, 0, "SPIKE") >>]

\* a prefab whose patches name an unknown tile and reach outside its pattern
PrefabOdd ==
    [id |-> "odd", category |-> "STRUCTURE", size |-> <<1, 1>>, reserve |-> <<1, 1>>,
     probability |-> 100, before |-> << <<"MT:WALL">> >>,
     after |-> << Patch(0, 0, "LAVA"), Patch(2, 0, "HOLE") >>]

Libraries ==
    { <<PrefabPillar, PrefabPool>>,
      <<PrefabBunker, PrefabSpike>>,
      <<PrefabOdd>> }

\* team A's spawns and whether team B mirrors them
SpawnConfigs ==
    { [a |-> <<>>, mirror |-> FALSE],
      [a |-> << <<1, 1>> >>, mirror |-> TRUE],
      [a |-> << <<2, 2>> >>, mirror |-> FALSE],
      [a |-> << <<1, 1>>, <<1, 3>> >>, mirror |-> TRUE] }

\* connectivity enforcement: off, or on with a corridor radius and extra corridors
ConnectConfigs ==
    { [enforce |-> FALSE, corridor_radius |-> 1, extra_corridors |-> 0],
      [enforce |-> TRUE, corridor_radius |-> -1, extra_corridors |-> 0],
      [enforce |-> TRUE, corridor_radius |-> 0, extra_corridors |-> 0],
      [enforce |-> TRUE, corridor_radius |-> 1, extra_corridors |-> 0],
      [enforce |-> TRUE, corridor_radius |-> 0, extra_corridors |-> 1] }

Seeds == {<<>>} \cup {<<n>> : n \in 0..MaxSeed}

\* what the system's entropy may seed an unseeded stream with
EntropyStates == {s \in 0..(RngMod - 1) : s % 32 = 5}

\* the stream states the stand-alone calls start from
TerrainStates == (0..MaxSeed) \cup EntropyStates

GridWidth == 6
GridHeight == 5
DefaultBirthLimit == 5
DefaultDeathLimit == 3
DefaultWallPercent == 45

MakeParams(seed, sc, radius, passes, cc, pf) ==
    [width |-> GridWidth, height |-> GridHeight, seed |-> seed,
     team_a_spawns |-> sc.a, mirror_spawns |-> sc.mirror,
     spawn_clear_radius |-> radius,
     ca_initial_wall_prob |-> DefaultWallPercent, ca_passes |-> passes,
     ca_birth_limit |-> DefaultBirthLimit, ca_death_limit |-> DefaultDeathLimit,
     enforce_connected_floor |-> cc.enforce, corridor_radius |-> cc.corridor_radius,
     extra_corridors |-> cc.extra_corridors, extra_corridor_radius |-> 1,
     prefabs_enabled |-> pf.enabled, library |-> pf.library, prefabs_json_load |-> "ok"]

\* runs without prefabs, over every terrain and connectivity setting
TerrainRuns ==
    { MakeParams(seed, sc, radius, passes, cc, [enabled |-> FALSE, library |-> <<>>]) :
        seed \in Seeds, sc \in SpawnConfigs, radius \in {0, 1}, passes \in {0, 1},
        cc \in ConnectConfigs }

\* runs with a prefab library, on the unsmoothed terrain
PrefabRuns ==
    { MakeParams(seed, sc, radius, 0, cc, [enabled |-> TRUE, library |-> l]) :
        seed \in Seeds, sc \in SpawnConfigs, radius \in {0, 1},
        cc \in {c \in ConnectConfigs : c.corridor_radius = 0 /\ c.extra_corridors = 0}
                \cup {c \in ConnectConfigs : ~c.enforce},
        l \in Libraries }

ParamSets == TerrainRuns \cup PrefabRuns

\* the parameter sets of the runs that are repeated
ParamSetsTwice ==
    { p \in ParamSets : /\ p.spawn_clear_radius = 1
                        /\ Len(p.team_a_spawns) = 1
                        /\ p.corridor_radius >= 0 }

-----------------------------------------------------------------------------
(* MapGenerator (core/generation.py) *)

AllSpawns == spawns.team1 \o spawns.team2

\* MapGenerator.__init__: self.random = random.Random(params.seed)
Construct(p) ==
    /\ params = p
    /\ \E e \in EntropyStates : rng = SeededRng(p.seed, e)
    /\ pc = "ca"
    /\ grid = <<>>
    /\ spawns = [team1 |-> <<>>, team2 |-> <<>>]
    /\ stages = <<>>
    /\ mergeIters = 0
    /\ scan = <<0, 0>>
    /\ reserved_rects = <<>>
    /\ applied = 0
    /\ placed = <<>>
    /\ probe = <<>>

Init == /\ \E p \in ParamSets : Construct(p)
        /\ run = 1
        /\ calls = 1
        /\ first = <<>>

InitTwice == /\ \E p \in ParamSetsTwice : Construct(p)
             /\ run = 1
             /\ calls = 1
             /\ first = <<>>

PassVars == <<scan, reserved_rects, applied, placed>>
CallVars == <<run, calls, first, probe>>

\* generate, lines 22-47: the spawn sets and the base terrain
BaseTerrain ==
    /\ pc = "ca"
    /\ spawns' = [team1 |-> params.team_a_spawns,
                  team2 |-> IF params.mirror_spawns
                            THEN mirror_spawns_vertical(params.team_a_spawns, params.width)
                            ELSE <<>>]
    /\ rng' = RngIter(rng, Max(0, params.width) * Max(0, params.height))
    /\ IF BorderRaises(params.width, params.height)
       THEN /\ pc' = "raised"
            /\ UNCHANGED <<grid, stages>>
       ELSE /\ grid' = generate_ca_walls_grid(rng, params.width, params.height,
                           params.ca_initial_wall_prob, params.ca_passes,
                           params.ca_birth_limit, params.ca_death_limit)
            /\ stages' = Append(stages, "base")
            /\ pc' = "clear"
    /\ UNCHANGED <<params, mergeIters, PassVars, CallVars>>

\* a generate that connects the spawns whatever the parameters say
AfterSpawnsAlwaysConnects(p) == "connect"

\* generate, line 55: if p.enforce_connected_floor
AfterSpawns(p) ==
    IF p.enforce_connected_floor THEN "connect" ELSE "hidden"

\* generate, lines 49-52
SpawnClearing ==
    /\ pc = "clear"
    /\ grid' = carve_disks(grid, AllSpawns, 1, params.spawn_clear_radius)
    /\ stages' = Append(stages, "spawns")
    /\ pc' = AfterSpawns(params)
    /\ UNCHANGED <<params, rng, spawns, mergeIters, PassVars, CallVars>>

\* generate, lines 57-65
ConnectSpawns ==
    /\ pc = "connect"
    /\ LET r == connect_spawns_in_place(grid, AllSpawns, rng, params.corridor_radius,
                    params.spawn_clear_radius, params.extra_corridors,
                    params.extra_corridor_radius)
       IN grid' = r.grid /\ rng' = r.rng
    /\ pc' = "regions"
    /\ UNCHANGED <<params, spawns, stages, mergeIters, PassVars, CallVars>>

\* connect_all_floor_regions_in_place, lines 188-190: the spawn disks again
RegionsBegin ==
    /\ pc = "regions"
    /\ grid' = carve_disks(grid, AllSpawns, 1, params.spawn_clear_radius)
    /\ pc' = "merge"
    /\ UNCHANGED <<params, rng, spawns, stages, mergeIters, PassVars, CallVars>>

\* the while-loop returns: at most one component is left (or no pair was found)
MergeReturn ==
    /\ pc = "merge"
    /\ IF Len(_find_floor_components(grid)) <= 1 THEN TRUE
       ELSE MergeIteration(grid, AllSpawns, rng, params.corridor_radius,
                           params.spawn_clear_radius).returned
    /\ stages' = Append(stages, "corridors")
    /\ pc' = "hidden"
    /\ UNCHANGED <<params, rng, grid, spawns, mergeIters, PassVars, CallVars>>

\* one iteration of the while-loop that carves a corridor
MergeStep ==
    /\ pc = "merge"
    /\ mergeIters < MaxMergeIters
    /\ Len(_find_floor_components(grid)) > 1
    /\ LET r == MergeIteration(grid, AllSpawns, rng, params.corridor_radius,
                               params.spawn_clear_radius)
       IN /\ ~r.returned
          /\ grid' = r.grid
          /\ rng' = r.rng
    /\ mergeIters' = mergeIters + 1
    /\ UNCHANGED <<params, pc, spawns, stages, PassVars, CallVars>>

\* A JSON value read from the prefab file: t is "int", "str", "list" or
\* "absent" (the key is missing), n the number, s the string, v the elements.
JInt(n) == [t |-> "int", n |-> n, s |-> "", v |-> <<>>]
JStr(s) == [t |-> "str", n |-> 0, s |-> s, v |-> <<>>]
JList(v) == [t |-> "list", n |-> 0, s |-> "", v |-> v]
JAbsent == [t |-> "absent", n |-> 0, s |-> "", v |-> <<>>]

\* not isinstance(x, list) or len(x) != n
NotListOfLen(x, n) == x.t # "list" \/ Len(x.v) # n

\* a test that asks for both sides of the reserve to be too small
ReserveTooSmallOnBothSides(w, h, rw, rh) == rw < w /\ rh < h

\* load_prefabs_from_json, line 87: rw < w or rh < h
ReserveTooSmall(w, h, rw, rh) == rw < w \/ rh < h

\* load_prefabs_from_json, lines 95-105: the patches of the dict entries
LoadPatches(after) ==
    LET dicts == SelectSeq(after, LAMBDA p : p.isdict)
    IN [i \in 1..Len(dicts) |->
           [x |-> dicts[i].x, y |-> dicts[i].y, tile |-> dicts[i].tile]]

\* load_prefabs_from_json, lines 62-117, the body of the loop for one entry:
\* raised is "" or the exception raised, prefab is <<>> or the Prefab appended
LoadItem(item) ==
    LET none(e) == [raised |-> e, prefab |-> <<>>]
        reserve == IF item.reserve.t = "absent" THEN item.size ELSE item.reserve
    IN IF ~item.isdict THEN none("")
       ELSE IF item.id.t = "absent" \/ item.category.t = "absent" THEN none("KeyError")
       ELSE IF item.category.s \notin {"STRUCTURE", "FEATURE"} THEN none("ValueError")
       ELSE IF item.size.t = "absent" \/ item.before.t = "absent" THEN none("KeyError")
       ELSE IF NotListOfLen(item.size, 2) \/ NotListOfLen(reserve, 2) THEN none("ValueError")
       ELSE LET w == item.size.v[1].n
                h == item.size.v[2].n
                rw == reserve.v[1].n
                rh == reserve.v[2].n
            IN IF w <= 0 \/ h <= 0 THEN none("ValueError")
               ELSE IF ReserveTooSmall(w, h, rw, rh) THEN none("ValueError")
               ELSE IF NotListOfLen(item.before, h) THEN none("ValueError")
               ELSE IF \E i \in 1..h : NotListOfLen(item.before.v[i], w)
                    THEN none("ValueError")
               ELSE [raised |-> "",
                     prefab |-> <<[id |-> item.id.s, category |-> item.category.s,
                                   size |-> <<w, h>>, reserve |-> <<rw, rh>>,
                                   probability |-> item.probability,
                                   before |-> [i \in 1..h |-> [j \in 1..w |->
                                                  item.before.v[i].v[j].s]],
                                   after |-> LoadPatches(item.after)]>>]

\* load_prefabs_from_json, lines 60-119: the loop over raw_prefabs from entry i
RECURSIVE LoadItems(_, _, _)
LoadItems(items, i, result) ==
    IF i > Len(items) THEN [raised |-> "", prefabs |-> result]
    ELSE LET r == LoadItem(items[i])
         IN IF r.raised # "" THEN [raised |-> r.raised, prefabs |-> <<>>]
            ELSE LoadItems(items, i + 1, result \o r.prefab)

\* load_prefabs_from_json, lines 53-119, for the parsed document
\* [islist, items]: islist is isinstance(data.get("prefabs"), list); raised is
\* "" and prefabs the list returned, or raised names the exception and
\* nothing is returned
LoadDocument(doc) ==
    IF ~doc.islist THEN [raised |-> "ValueError", prefabs |-> <<>>]
    ELSE LoadItems(doc.items, 1, <<>>)

\* load_prefabs_from_json(path): p.library is what the file at
\* prefabs_json_path holds and p.prefabs_json_load how reading it ends, "ok"
\* or the exception raised (lines 49-93)
load_prefabs_from_json(p) ==
    IF p.prefabs_json_load = "ok"
    THEN [raised |-> FALSE, prefabs |-> p.library]
    ELSE [raised |-> TRUE, prefabs |-> <<>>]

\* a generate that keeps what the file holds when the load raised
GeneratePrefabsDespiteError(p) == p.library

\* generate, lines 82-89: prefabs = load_prefabs_from_json(path), or [] when
\* the load raised an Exception
GeneratePrefabs(p) ==
    LET r == load_prefabs_from_json(p)
    IN IF r.raised THEN <<>> ELSE r.prefabs

\* whether generate runs the two prefab passes (lines 82-92), and whether a
\* pass scans at all (prefabs.py lines 273-276)
PrefabPassesRun == params.prefabs_enabled /\ GeneratePrefabs(params) # <<>>
PassScans(g) == GridW(g) # 0 /\ GridH(g) # 0

\* generate, lines 78-79
HiddenWalls ==
    /\ pc = "hidden"
    /\ grid' = convert_hidden_walls_to_indestructible_in_place(grid)
    /\ stages' = Append(stages, "hidden-walls")
    /\ pc' = IF PrefabPassesRun /\ PassScans(grid) THEN "structure" ELSE "done"
    /\ UNCHANGED <<params, rng, spawns, mergeIters, PassVars, CallVars>>

PassCategory == IF pc = "structure" THEN "STRUCTURE" ELSE "FEATURE"
PassLabel == IF pc = "structure" THEN "prefab-structure" ELSE "prefab-feature"

\* the anchor after scan in row-major order, <<>> after the last one
NextScan ==
    IF scan[1] + 1 < GridW(grid) THEN <<scan[1] + 1, scan[2]>>
    ELSE IF scan[2] + 1 < GridH(grid) THEN <<0, scan[2] + 1>>
    ELSE <<>>

\* a pass that forgets the rectangle it has just committed
AdvanceScanDroppingRect(rects, count) ==
    IF NextScan # <<>>
    THEN /\ scan' = NextScan
         /\ reserved_rects' = reserved_rects
         /\ applied' = count
         /\ pc' = pc
    ELSE /\ scan' = <<0, 0>>
         /\ reserved_rects' = <<>>
         /\ applied' = 0
         /\ pc' = IF pc = "structure" THEN "feature" ELSE "done"

\* the pass leaves its loops: the Structure pass hands over to the Feature
\* pass, the Feature pass to the return of generate
AdvanceScan(rects, count) ==
    IF NextScan # <<>>
    THEN /\ scan' = NextScan
         /\ reserved_rects' = rects
         /\ applied' = count
         /\ pc' = pc
    ELSE /\ scan' = <<0, 0>>
         /\ reserved_rects' = <<>>
         /\ applied' = 0
         /\ pc' = IF pc = "structure" THEN "feature" ELSE "done"

\* apply_prefab_pass_in_place, lines 291-364: the anchor scan[1], scan[2]
PrefabStep ==
    /\ pc \in {"structure", "feature"}
    /\ LET pool == CategoryPool(GeneratePrefabs(params), PassCategory)
           t == TrySizes(grid, pool, PoolSizes(pool), 1, scan[1], scan[2], rng,
                         AllSpawns, params.spawn_clear_radius, reserved_rects)
       IN /\ rng' = t.rng
          /\ IF t.chosen = <<>>
             THEN /\ AdvanceScan(reserved_rects, applied)
                  /\ UNCHANGED <<grid, stages, placed>>
             ELSE LET chosen == t.chosen[1]
                      a == ApplyPatches(grid, chosen.after, scan[1], scan[2])
                      rect == _compute_reserve_rect(scan[1], scan[2],
                                  chosen.size[1], chosen.size[2],
                                  chosen.reserve[1], chosen.reserve[2])
                  IN /\ grid' = a.grid
                     /\ IF a.raised
                        THEN /\ pc' = "raised"
                             /\ UNCHANGED <<stages, PassVars>>
                        ELSE /\ AdvanceScan(Append(reserved_rects, rect), applied + 1)
                             /\ stages' = Append(stages, PassLabel)
                             /\ placed' = Append(placed,
                                    [category |-> PassCategory, id |-> chosen.id,
                                     x |-> scan[1], y |-> scan[2],
                                     size |-> chosen.size, rect |-> rect,
                                     written |-> a.written, spared |-> a.spared])
    /\ UNCHANGED <<params, spawns, mergeIters, CallVars>>

\* what a generate() call starts from, whatever the generator did before
FreshCall ==
    /\ pc' = "ca"
    /\ grid' = <<>>
    /\ spawns' = [team1 |-> <<>>, team2 |-> <<>>]
    /\ stages' = <<>>
    /\ mergeIters' = 0
    /\ scan' = <<0, 0>>
    /\ reserved_rects' = <<>>
    /\ applied' = 0
    /\ placed' = <<>>

\* the caller keeps the MapData and builds a second MapGenerator(params)
Restart ==
    /\ pc = "done"
    /\ run = 1
    /\ first' = <<[grid |-> grid, spawns |-> spawns]>>
    /\ run' = 2
    /\ calls' = 1
    /\ params' = params
    /\ \E e \in EntropyStates : rng' = SeededRng(params.seed, e)
    /\ probe' = probe
    /\ FreshCall

\* the caller keeps the MapData and calls generate() on the same MapGenerator:
\* self.random is where the first call left it
GenerateAgain ==
    /\ pc = "done"
    /\ run = 1
    /\ first' = <<[grid |-> grid, spawns |-> spawns]>>
    /\ run' = 2
    /\ calls' = calls + 1
    /\ UNCHANGED <<params, rng, probe>>
    /\ FreshCall

Next ==
    \/ BaseTerrain
    \/ SpawnClearing
    \/ ConnectSpawns
    \/ RegionsBegin
    \/ MergeReturn
    \/ MergeStep
    \/ HiddenWalls
    \/ PrefabStep

NextTwice == Next \/ Restart \/ GenerateAgain

Spec == Init /\ [][Next]_vars

SpecTwice == InitTwice /\ [][NextTwice]_vars

-----------------------------------------------------------------------------
(* generate with a prefab file that fails to load, then generate with the    *)
(* same parameters and seed but prefabs disabled                             *)

LoadOutcomes == {"ok", "FileNotFoundError", "ValueError", "KeyError"}

LoadRuns ==
    { [p EXCEPT !.prefabs_json_load = o] :
        p \in {q \in PrefabRuns : q.seed # <<>>}, o \in LoadOutcomes }

InitLoad == /\ \E p \in LoadRuns : Construct(p)
            /\ run = 1
            /\ calls = 1
            /\ first = <<>>

\* the caller keeps the MapData and the placements of the first run and builds
\* MapGenerator(params) again with prefabs_enabled = False
RestartDisabled ==
    /\ pc = "done"
    /\ run = 1
    /\ first' = <<[grid |-> grid, spawns |-> spawns, placed |-> placed, stages |-> stages]>>
    /\ run' = 2
    /\ calls' = 1
    /\ params' = [params EXCEPT !.prefabs_enabled = FALSE]
    /\ \E e \in EntropyStates : rng' = SeededRng(params.seed, e)
    /\ probe' = probe
    /\ FreshCall

NextLoad == Next \/ RestartDisabled

SpecLoad == InitLoad /\ [][NextLoad]_vars

-----------------------------------------------------------------------------
(* generate on grids too small to hold a border and an interior *)

\* widths and heights 0..MaxSmallSide are tried
MaxSmallSide == 5

SmallRuns ==
    { [p EXCEPT !.width = w, !.height = h] :
        p \in {q \in TerrainRuns : q.spawn_clear_radius = 1 /\ q.corridor_radius >= 0
                                    /\ q.extra_corridors = 0}
               \cup {q \in PrefabRuns : q.seed = <<1>> /\ q.spawn_clear_radius = 1},
        w \in 0..MaxSmallSide, h \in 0..MaxSmallSide }

InitSmall == /\ \E p \in SmallRuns : Construct(p)
             /\ run = 1
             /\ calls = 1
             /\ first = <<>>

SpecSmall == InitSmall /\ [][Next]_vars

-----------------------------------------------------------------------------
(* apply_prefab_pass_in_place with one 3x3 prefab matching anything, on a    *)
(* 5x5 grid of Floor without protection                                      *)

AllFloor5x5 == [y \in 1..5 |-> [x \in 1..5 |-> "FL"]]

\* 3x3 STRUCTURE prefabs with before all ANY and probability 1.0
AnyPrefabs ==
    { [id |-> "any3", category |-> "STRUCTURE", size |-> <<3, 3>>, reserve |-> rs,
       probability |-> 100,
       before |-> [y \in 1..3 |-> [x \in 1..3 |-> "ANY"]],
       after |-> a] :
        rs \in {<<3, 3>>, <<5, 3>>, <<5, 5>>},
        a \in { <<>>, << Patch(1, 1, "WALL_BREAKABLE") >>,
                << Patch(0, 0, "WATER"), Patch(2, 2, "WALL_INBREAKABLE") >> } }

InitScenarioC ==
    /\ \E pf \in AnyPrefabs :
          params = [MakeParams(<<>>, [a |-> <<>>, mirror |-> FALSE], 0, 0,
                               [enforce |-> FALSE, corridor_radius |-> 1,
                                extra_corridors |-> 0],
                               [enabled |-> TRUE, library |-> <<pf>>])
                       EXCEPT !.width = 5, !.height = 5]
    /\ rng \in TerrainStates
    /\ pc = "structure"
    /\ grid = AllFloor5x5
    /\ spawns = [team1 |-> <<>>, team2 |-> <<>>]
    /\ stages = <<>>
    /\ mergeIters = 0
    /\ scan = <<0, 0>>
    /\ reserved_rects = <<>>
    /\ applied = 0
    /\ placed = <<>>
    /\ run = 1
    /\ calls = 0
    /\ first = <<>>
    /\ probe = <<>>

SpecScenarioC == InitScenarioC /\ [][PrefabStep]_vars

-----------------------------------------------------------------------------
(* Stage functions called on their own, outside MapGenerator.generate: the   *)
(* variables of the generator rest and probe holds the call.                 *)

GeneratorVars == <<params, rng, pc, grid, spawns, stages, mergeIters, scan,
                   reserved_rects, applied, placed, run, calls, first>>

Idle ==
    /\ params = <<>>
    /\ rng = 0
    /\ pc = "idle"
    /\ grid = <<>>
    /\ spawns = [team1 |-> <<>>, team2 |-> <<>>]
    /\ stages = <<>>
    /\ mergeIters = 0
    /\ scan = <<0, 0>>
    /\ reserved_rects = <<>>
    /\ applied = 0
    /\ placed = <<>>
    /\ run = 1
    /\ calls = 0
    /\ first = <<>>

(* _rotate_prefab_cw applied again and again to a loaded prefab *)

\* the longest side of a pattern that is rotated
MaxPrefabSide == 2

RotateTokens == {"SOLID", "MT:FLOOR"}

\* patch lists as load_prefabs_from_json accepts them: any integer offsets,
\* any tile name
RotatePatchLists ==
    { <<>>,
      << Patch(0, 0, "FLOOR") >>,
      << Patch(1, 0, "WATER"), Patch(0, 1, "HOLE") >>,
      << Patch(2, 0, "HOLE"), Patch(-1, 3, "LAVA") >> }

\* the prefabs load_prefabs_from_json returns: w, h > 0, reserve >= size,
\* before of h rows of w tokens
RotatePrefabs ==
    { [id |-> "p", category |-> k[1], size |-> <<w, h>>,
       reserve |-> <<w + k[2], h + 2 * k[2]>>, probability |-> k[3],
       before |-> b, after |-> a] :
        w \in 1..MaxPrefabSide, h \in 1..MaxPrefabSide,
        k \in {<<"STRUCTURE", 0, 100>>, <<"FEATURE", 1, 50>>},
        b \in UNION {[1..hh -> [1..ww -> RotateTokens]] :
                        ww \in 1..MaxPrefabSide, hh \in 1..MaxPrefabSide},
        a \in RotatePatchLists }

LoadedPrefabs ==
    {p \in RotatePrefabs : Len(p.before) = p.size[2] /\ Len(p.before[1]) = p.size[1]}

InitRotate ==
    /\ Idle
    /\ \E p \in LoadedPrefabs : probe = [original |-> p, cur |-> p, turns |-> 0]

RotateCw ==
    /\ probe.turns < 4
    /\ probe' = [probe EXCEPT !.cur = _rotate_prefab_cw(probe.cur),
                              !.turns = probe.turns + 1]
    /\ UNCHANGED GeneratorVars

SpecRotate == InitRotate /\ [][RotateCw]_vars

(* _fallback_path run one loop iteration at a time, under every draw *)

\* start and goal coordinates range over -1..MaxCoord on both axes
MaxCoord == 2

WalkCoords == {<<x, y>> : x \in (-1)..MaxCoord, y \in (-1)..MaxCoord}

\* a body of the while-loop that steps on both axes at once
FallbackNextDiagonal(x, y, b, u) ==
    LET dx == IF x = b[1] THEN 0 ELSE (IF b[1] > x THEN 1 ELSE -1)
        dy == IF y = b[2] THEN 0 ELSE (IF b[2] > y THEN 1 ELSE -1)
    IN <<x + dx, y + dy>>

\* the body of the while-loop, lines 253-265: the cell stepped to from (x, y)
\* when rng.random() returns u / RngMod
FallbackNext(x, y, b, u) ==
    LET dx == IF x = b[1] THEN 0 ELSE (IF b[1] > x THEN 1 ELSE -1)
        dy == IF y = b[2] THEN 0 ELSE (IF b[2] > y THEN 1 ELSE -1)
    IN IF dx # 0 /\ dy # 0
       THEN (IF RandomLt(u, 1, 2) THEN <<x + dx, y>> ELSE <<x, y + dy>>)
       ELSE IF dx # 0 THEN <<x + dx, y>> ELSE <<x, y + dy>>

InitFallback ==
    /\ Idle
    /\ \E a \in WalkCoords, b \in WalkCoords :
          probe = [a |-> a, b |-> b, at |-> a, path |-> <<a>>, returned |-> FALSE]

\* one iteration of the while-loop
FallbackStep ==
    /\ ~probe.returned
    /\ probe.at # probe.b
    /\ \E u \in 0..(RngMod - 1) :
          LET n == FallbackNext(probe.at[1], probe.at[2], probe.b, u)
          IN probe' = [probe EXCEPT !.at = n, !.path = Append(probe.path, n)]
    /\ UNCHANGED GeneratorVars

\* the loop condition fails: return path
FallbackReturn ==
    /\ ~probe.returned
    /\ probe.at = probe.b
    /\ probe' = [probe EXCEPT !.returned = TRUE]
    /\ UNCHANGED GeneratorVars

NextFallback == FallbackStep \/ FallbackReturn

\* the loop runs in the caller's thread and is never suspended
SpecFallback == InitFallback /\ [][NextFallback]_vars /\ WF_vars(NextFallback)

(* load_prefabs_from_json on parsed documents, well-formed and malformed *)

\* a before grid of h rows of w tokens
BeforeRows(w, h) == JList([i \in 1..h |-> JList([j \in 1..w |-> JStr("ANY")])])

LoaderCategories == {JStr("STRUCTURE"), JStr("FEATURE"), JStr("DECOR"), JAbsent}

\* size values: pairs of 0..MaxPrefabSide, a number, lists of 1 and 3 numbers,
\* and no size key
LoaderSizes ==
    {JList(<<JInt(w), JInt(h)>>) : w \in 0..MaxPrefabSide, h \in 0..MaxPrefabSide}
        \cup {JInt(2), JList(<<JInt(1)>>), JList(<<JInt(1), JInt(1), JInt(1)>>), JAbsent}

\* reserve values: no reserve key, a string, a list of one number, and pairs
LoaderReserves ==
    {JAbsent, JStr("3x3"), JList(<<JInt(2)>>)}
        \cup {JList(<<JInt(rw), JInt(rh)>>) :
                 rw \in {1, MaxPrefabSide + 1}, rh \in {1, MaxPrefabSide + 1}}

\* before values: full grids, a string, a list holding a string, rows of
\* different lengths, and no before key
LoaderBefores ==
    {BeforeRows(w, h) : w \in 1..MaxPrefabSide, h \in 1..MaxPrefabSide}
        \cup {JStr("ANY"), JList(<<JStr("ANY")>>), JAbsent,
              JList(<<JList(<<JStr("ANY")>>), JList(<<JStr("ANY"), JStr("SOLID")>>)>>)}

\* the after list of every entry: a patch, a string, a patch outside the pattern
LoaderAfter ==
    << [isdict |-> TRUE, x |-> 0, y |-> 0, tile |-> "WATER"],
       [isdict |-> FALSE, x |-> 0, y |-> 0, tile |-> ""],
       [isdict |-> TRUE, x |-> -1, y |-> 4, tile |-> "LAVA"] >>

LoaderItem(id, category, size, reserve, before) ==
    [isdict |-> TRUE, id |-> id, category |-> category, size |-> size,
     reserve |-> reserve, probability |-> 100, before |-> before, after |-> LoaderAfter]

LoaderItems ==
    { LoaderItem(JStr("p"), c, s, r, b) :
        c \in LoaderCategories, s \in LoaderSizes, r \in LoaderReserves,
        b \in LoaderBefores }

\* an entry the loader accepts, an entry that is not a dict, an entry without id
GoodItem ==
    LoaderItem(JStr("good"), JStr("FEATURE"), JList(<<JInt(1), JInt(1)>>), JAbsent,
               BeforeRows(1, 1))
NonDictItem == [GoodItem EXCEPT !.isdict = FALSE]
NoIdItem == [GoodItem EXCEPT !.id = JAbsent]

LoaderDocuments ==
    {[islist |-> FALSE, items |-> <<>>], [islist |-> TRUE, items |-> <<>>],
     [islist |-> TRUE, items |-> <<NoIdItem>>]}
        \cup {[islist |-> TRUE, items |-> <<it>>] : it \in LoaderItems}
        \cup {[islist |-> TRUE, items |-> its] :
                 its \in UNION {{<<GoodItem, it>>, <<NonDictItem, it>>, <<it, GoodItem>>} :
                                  it \in {i \in LoaderItems :
                                             i.category.s = "STRUCTURE"}}}

InitLoader ==
    /\ Idle
    /\ \E d \in LoaderDocuments :
          probe = [doc |-> d, called |-> FALSE, result |-> [raised |-> "", prefabs |-> <<>>]]

LoadCall ==
    /\ ~probe.called
    /\ probe' = [probe EXCEPT !.called = TRUE, !.result = LoadDocument(probe.doc)]
    /\ UNCHANGED GeneratorVars

SpecLoader == InitLoader /\ [][LoadCall]_vars

(* the smoothing loop of generate_ca_walls_grid, one statement at a time,    *)
(* and _ca_step called on a grid without a border                            *)

\* smoothing passes that are followed
MaxCaPasses == 2

CaWallPercents == {30, DefaultWallPercent, 60}
CaBirthLimits == {DefaultBirthLimit - 1, DefaultBirthLimit}
CaDeathLimits == {DefaultDeathLimit, DefaultDeathLimit + 1}

\* the grid after the random initialisation, and after the first border loops
CaStartGrids ==
    UNION { {RandomInit(s, GridWidth, GridHeight, pct),
             ForceBorder(RandomInit(s, GridWidth, GridHeight, pct), GridWidth, GridHeight)} :
            s \in TerrainStates, pct \in CaWallPercents }

InitCa ==
    /\ Idle
    /\ \E g \in CaStartGrids, b \in CaBirthLimits, d \in CaDeathLimits :
          probe = [at |-> "step", grid |-> g, before |-> g, passes |-> 0,
                   birth_limit |-> b, death_limit |-> d]

\* grid = _ca_step(grid, birth_limit, death_limit)
CaStep ==
    /\ probe.at = "step"
    /\ probe.passes < MaxCaPasses
    /\ probe' = [probe EXCEPT !.at = "border", !.before = probe.grid,
                              !.grid = _ca_step(probe.grid, probe.birth_limit,
                                                probe.death_limit),
                              !.passes = probe.passes + 1]
    /\ UNCHANGED GeneratorVars

\* the border loops that follow each pass
CaKeepBorder ==
    /\ probe.at = "border"
    /\ probe' = [probe EXCEPT !.at = "step", !.before = probe.grid,
                              !.grid = ForceBorder(probe.grid, GridWidth, GridHeight)]
    /\ UNCHANGED GeneratorVars

NextCa == CaStep \/ CaKeepBorder

SpecCa == InitCa /\ [][NextCa]_vars

(* _a_star run one iteration of its while-loop at a time *)

\* the grids the search runs on: base terrains, as they are before and after
\* the hidden-wall conversion (the latter hold IndestructibleWall inside)
AStarGrids ==
    UNION { {generate_ca_walls_grid(s, GridWidth, GridHeight, DefaultWallPercent, 0,
                                    DefaultBirthLimit, DefaultDeathLimit),
             convert_hidden_walls_to_indestructible_in_place(
                 generate_ca_walls_grid(s, GridWidth, GridHeight, DefaultWallPercent, 0,
                                        DefaultBirthLimit, DefaultDeathLimit))} :
            s \in EntropyStates \cup {0} }

\* a neighbour test that lets IndestructibleWall through
RelaxNeighborThroughIw(g, goal, cur, n, st) ==
    IF ~_in_bounds(n[1], n[2], GridW(g), GridH(g)) THEN st
    ELSE LET tentative == st.gscore[cur] + _tile_cost(At(g, n[1], n[2]))
         IN IF tentative < GScoreGet(st.gscore, n)
            THEN [st EXCEPT !.came_from = [c \in DOMAIN st.came_from \cup {n} |->
                                              IF c = n THEN cur ELSE st.came_from[c]],
                            !.gscore = [c \in DOMAIN st.gscore \cup {n} |->
                                              IF c = n THEN tentative ELSE st.gscore[c]],
                            !.counter = st.counter + 1,
                            !.heap = st.heap \cup
                                {<<tentative + _heur(n, goal), st.counter + 1, n>>}]
            ELSE st

\* lines 119-132: the body of the for-loop for the neighbour n of cur
RelaxNeighbor(g, goal, cur, n, st) ==
    IF ~_in_bounds(n[1], n[2], GridW(g), GridH(g)) \/ At(g, n[1], n[2]) = "IW" THEN st
    ELSE LET tentative == st.gscore[cur] + _tile_cost(At(g, n[1], n[2]))
         IN IF tentative < GScoreGet(st.gscore, n)
            THEN [st EXCEPT !.came_from = [c \in DOMAIN st.came_from \cup {n} |->
                                              IF c = n THEN cur ELSE st.came_from[c]],
                            !.gscore = [c \in DOMAIN st.gscore \cup {n} |->
                                              IF c = n THEN tentative ELSE st.gscore[c]],
                            !.counter = st.counter + 1,
                            !.heap = st.heap \cup
                                {<<tentative + _heur(n, goal), st.counter + 1, n>>}]
            ELSE st

\* lines 98-106: the heap holds the start, gscore[start] = 0
InitAStar ==
    /\ Idle
    /\ \E g \in AStarGrids, a \in WalkCoords, b \in WalkCoords :
          probe = [at |-> "loop", grid |-> g, start |-> a, goal |-> b, path |-> <<>>,
                   cur |-> a, i |-> 0,
                   st |-> [came_from |-> [c \in {} |-> <<0, 0>>],
                           gscore    |-> [c \in {a} |-> 0],
                           counter   |-> 0,
                           heap      |-> {<<0, 0, a>>}]]

\* heappop of a cell other than the goal: on to its neighbours
AStarPop ==
    /\ probe.at = "loop"
    /\ probe.st.heap # {}
    /\ LET top == HeapTop(probe.st.heap)
       IN /\ top[3] # probe.goal
          /\ probe' = [probe EXCEPT !.at = "neighbors", !.cur = top[3], !.i = 1,
                                    !.st.heap = probe.st.heap \ {top}]
    /\ UNCHANGED GeneratorVars

\* one iteration of the for-loop over _neighbors4(cx, cy)
AStarNeighbor ==
    /\ probe.at = "neighbors"
    /\ probe' = [probe EXCEPT
          !.st = RelaxNeighbor(probe.grid, probe.goal, probe.cur,
                               _neighbors4(probe.cur[1], probe.cur[2])[probe.i], probe.st),
          !.i = IF probe.i < 4 THEN probe.i + 1 ELSE 0,
          !.at = IF probe.i < 4 THEN "neighbors" ELSE "loop"]
    /\ UNCHANGED GeneratorVars

\* heappop of the goal: reconstruct and return the path
AStarFound ==
    /\ probe.at = "loop"
    /\ probe.st.heap # {}
    /\ LET cur == HeapTop(probe.st.heap)[3]
       IN /\ cur = probe.goal
          /\ probe' = [probe EXCEPT !.at = "path", !.cur = cur,
                                    !.path = Reconstruct(probe.st.came_from, cur, <<cur>>)]
    /\ UNCHANGED GeneratorVars

\* the heap is empty: return None
AStarFail ==
    /\ probe.at = "loop"
    /\ probe.st.heap = {}
    /\ probe' = [probe EXCEPT !.at = "None"]
    /\ UNCHANGED GeneratorVars

NextAStar == AStarPop \/ AStarNeighbor \/ AStarFound \/ AStarFail

\* the loop runs in the caller's thread and is never suspended
SpecAStar == InitAStar /\ [][NextAStar]_vars /\ WF_vars(NextAStar)

(* the two prefab passes of generate, one size at one anchor at a time; the   *)
(* run enters them as generate does without connectivity enforcement         *)

PassLibraries == Libraries \cup { <<PrefabBunker, PrefabPillar, PrefabSpike, PrefabPool>> }

PassRuns ==
    { MakeParams(<<n>>, sc, radius, 0,
                 [enforce |-> FALSE, corridor_radius |-> 1, extra_corridors |-> 0],
                 [enabled |-> TRUE, library |-> l]) :
        n \in 0..MaxSeed, sc \in SpawnConfigs, radius \in {0, 1}, l \in PassLibraries }

\* generate, lines 22-79: the state when the Structure pass is entered
InitPass ==
    /\ \E p \in PassRuns :
          LET team_b == IF p.mirror_spawns
                        THEN mirror_spawns_vertical(p.team_a_spawns, p.width) ELSE <<>>
              base == generate_ca_walls_grid(SeededRng(p.seed, 0), p.width, p.height,
                          p.ca_initial_wall_prob, p.ca_passes, p.ca_birth_limit,
                          p.ca_death_limit)
          IN /\ params = p
             /\ rng = RngIter(SeededRng(p.seed, 0), p.width * p.height)
             /\ spawns = [team1 |-> p.team_a_spawns, team2 |-> team_b]
             /\ grid = convert_hidden_walls_to_indestructible_in_place(
                           carve_disks(base, p.team_a_spawns \o team_b, 1,
                                       p.spawn_clear_radius))
    /\ pc = "structure"
    /\ stages = <<"base", "spawns", "hidden-walls">>
    /\ mergeIters = 0
    /\ scan = <<0, 0>>
    /\ reserved_rects = <<>>
    /\ applied = 0
    /\ placed = <<>>
    /\ run = 1
    /\ calls = 1
    /\ first = <<>>
    /\ probe = [i |-> 1, outcome |-> "start"]

PassPool == CategoryPool(GeneratePrefabs(params), PassCategory)

\* the body of the for-loop over sizes for size number probe.i at the anchor scan
PassTry ==
    TryOneSize(grid, PassPool, PoolSizes(PassPool)[probe.i], scan[1], scan[2], rng,
               AllSpawns, params.spawn_clear_radius, reserved_rects)

InSizeLoop == pc \in {"structure", "feature"} /\ probe.i <= Len(PoolSizes(PassPool))

\* continue: the size does not fit, the anchor is protected, or nothing matches
SizeSkip ==
    /\ InSizeLoop
    /\ PassTry.outcome = "skip"
    /\ probe' = [i |-> probe.i + 1, outcome |-> "skip"]
    /\ UNCHANGED <<params, rng, pc, grid, spawns, stages, mergeIters, PassVars,
                   run, calls, first>>

\* continue: the probability draw discards the chosen prefab
SizeReject ==
    /\ InSizeLoop
    /\ PassTry.outcome = "reject"
    /\ rng' = PassTry.rng
    /\ probe' = [i |-> probe.i + 1, outcome |-> "reject"]
    /\ UNCHANGED <<params, pc, grid, spawns, stages, mergeIters, PassVars,
                   run, calls, first>>

\* lines 347-363: the patches, the reservation, the count, on_apply, break
SizeCommit ==
    /\ InSizeLoop
    /\ PassTry.outcome = "commit"
    /\ rng' = PassTry.rng
    /\ LET chosen == PassTry.chosen[1]
           a == ApplyPatches(grid, chosen.after, scan[1], scan[2])
           rect == _compute_reserve_rect(scan[1], scan[2], chosen.size[1], chosen.size[2],
                                         chosen.reserve[1], chosen.reserve[2])
       IN /\ grid' = a.grid
          /\ IF a.raised
             THEN /\ pc' = "raised"
                  /\ probe' = [i |-> probe.i, outcome |-> "raised"]
                  /\ UNCHANGED <<stages, PassVars>>
             ELSE /\ AdvanceScan(Append(reserved_rects, rect), applied + 1)
                  /\ stages' = Append(stages, PassLabel)
                  /\ placed' = Append(placed,
                         [category |-> PassCategory, id |-> chosen.id,
                          x |-> scan[1], y |-> scan[2],
                          size |-> chosen.size, rect |-> rect,
                          written |-> a.written, spared |-> a.spared])
                  /\ probe' = [i |-> 1, outcome |-> "commit"]
    /\ UNCHANGED <<params, spawns, mergeIters, run, calls, first>>

\* the for-loop over sizes ends without a placement: on to the next anchor
SizesDone ==
    /\ pc \in {"structure", "feature"}
    /\ probe.i > Len(PoolSizes(PassPool))
    /\ AdvanceScan(reserved_rects, applied)
    /\ probe' = [i |-> 1, outcome |-> "next"]
    /\ UNCHANGED <<params, rng, grid, spawns, stages, mergeIters, placed,
                   run, calls, first>>

NextPass == SizeSkip \/ SizeReject \/ SizeCommit \/ SizesDone

SpecPass == InitPass /\ [][NextPass]_vars

(* carve_disk, place_features_in_place and the prefab pass's tests at one    *)
(* anchor, each called with a negative radius and again with radius 0        *)

\* radii -MaxNegRadius .. -1 are tried
MaxNegRadius == 2

BaseTerrains ==
    { generate_ca_walls_grid(s, GridWidth, GridHeight, DefaultWallPercent, 0,
                             DefaultBirthLimit, DefaultDeathLimit) : s \in TerrainStates }

InteriorCoords == {<<x, y>> : x \in 1..(GridWidth - 2), y \in 1..(GridHeight - 2)}

InitRadius ==
    /\ Idle
    /\ \E g \in BaseTerrains, c \in InteriorCoords, r \in (-MaxNegRadius)..(-1) :
          probe = [call |-> "none", grid |-> g, center |-> c, radius |-> r,
                   out |-> <<>>, zero |-> <<>>]

\* carve_disk(grid, cx, cy, r, "FL")
CarveCall ==
    /\ probe.call = "none"
    /\ probe' = [probe EXCEPT
          !.call = "carve_disk",
          !.out = carve_disk(probe.grid, probe.center[1], probe.center[2], probe.radius, "FL"),
          !.zero = carve_disk(probe.grid, probe.center[1], probe.center[2], 0, "FL")]
    /\ UNCHANGED GeneratorVars

\* place_features_in_place(grid, rng, 0, 0.5, 0, r, [center])
FeaturesCall ==
    /\ probe.call = "none"
    /\ probe' = [probe EXCEPT
          !.call = "place_features_in_place",
          !.out = place_features_in_place(probe.grid, 0, 0, 50, 0, probe.radius,
                                          <<probe.center>>).grid,
          !.zero = place_features_in_place(probe.grid, 0, 0, 50, 0, 0,
                                           <<probe.center>>).grid]
    /\ UNCHANGED GeneratorVars

\* apply_prefab_pass_in_place at the anchor on the centre: what is chosen
PrefabAnchorCall ==
    /\ probe.call = "none"
    /\ LET pool == CategoryPool(<<PrefabPillar, PrefabPool>>, "STRUCTURE")
           try(r) == TrySizes(probe.grid, pool, PoolSizes(pool), 1, probe.center[1],
                              probe.center[2], 0, <<probe.center>>, r, <<>>).chosen
       IN probe' = [probe EXCEPT !.call = "apply_prefab_pass_in_place",
                                 !.out = try(probe.radius), !.zero = try(0)]
    /\ UNCHANGED GeneratorVars

NextRadius == CarveCall \/ FeaturesCall \/ PrefabAnchorCall

SpecRadius == InitRadius /\ [][NextRadius]_vars

(* place_features_in_place, one hazard pass at a time *)

\* a terrain with 11 Floor cells: 10 of them outside the disk of radius 0
\* around (1, 1)
ScenarioGrid ==
    << <<"IW", "IW", "IW", "IW", "IW", "IW">>,
       <<"IW", "FL", "FL", "FL", "FL", "IW">>,
       <<"IW", "FL", "FL", "WL", "FL", "IW">>,
       <<"IW", "FL", "FL", "FL", "FL", "IW">>,
       <<"IW", "IW", "IW", "IW", "IW", "IW">> >>

FeaturePercents == {0, 25, 50, 100}

\* protection: none, or around one centre with radius 0 or 1
FeatureProtections ==
    { [centers |-> <<>>, radius |-> 1],
      [centers |-> << <<1, 1>> >>, radius |-> 0],
      [centers |-> << <<1, 1>>, <<4, 1>> >>, radius |-> 1] }

InitFeatures ==
    /\ Idle
    /\ \E g \in BaseTerrains \cup {ScenarioGrid}, s \in {0, 5},
          wa \in FeaturePercents, ho \in FeaturePercents, sp \in FeaturePercents,
          pr \in FeatureProtections :
          probe = [stage |-> "start", grid |-> g, before |-> g, orig |-> g, rng |-> s,
                   water_percent |-> wa, holes_percent |-> ho, spikes_percent |-> sp,
                   protected_centers |-> pr.centers, protected_radius |-> pr.radius,
                   percent |-> 0, tile |-> "FL"]

\* candidates = _collect_floor_cells(...); _place_percent(grid, rng, candidates, percent, tile)
HazardPass(to, percent, tile) ==
    LET r == _place_percent(probe.grid, probe.rng,
                 _collect_floor_cells(probe.grid, probe.protected_centers,
                                      probe.protected_radius),
                 percent, tile)
    IN [probe EXCEPT !.stage = to, !.before = probe.grid, !.grid = r.grid,
                     !.rng = r.rng, !.percent = percent, !.tile = tile]

WaterPass ==
    /\ probe.stage = "start"
    /\ probe' = HazardPass("water", probe.water_percent, "WA")
    /\ UNCHANGED GeneratorVars

HolesPass ==
    /\ probe.stage = "water"
    /\ probe' = HazardPass("holes", probe.holes_percent, "HO")
    /\ UNCHANGED GeneratorVars

SpikesPass ==
    /\ probe.stage = "holes"
    /\ probe' = HazardPass("spikes", probe.spikes_percent, "SP")
    /\ UNCHANGED GeneratorVars

NextFeatures == WaterPass \/ HolesPass \/ SpikesPass

SpecFeatures == InitFeatures /\ [][NextFeatures]_vars

-----------------------------------------------------------------------------
(* Properties *)

GridCells(g) == {<<x, y>> : x \in 0..(GridW(g) - 1), y \in 0..(GridH(g) - 1)}
FloorCells(g) == {c \in GridCells(g) : At(g, c[1], c[2]) = "FL"}
OnOuterRing(g, c) ==
    c[1] = 0 \/ c[1] = GridW(g) - 1 \/ c[2] = 0 \/ c[2] = GridH(g) - 1
RectCells(r) == {<<x, y>> : x \in r[1]..r[3], y \in r[2]..r[4]}
InDisk(c, center, radius) ==
    (c[1] - center[1]) * (c[1] - center[1])
      + (c[2] - center[2]) * (c[2] - center[2]) <= radius * radius
InSpawnDisk(c) ==
    \E i \in 1..Len(AllSpawns) : InDisk(c, AllSpawns[i], params.spawn_clear_radius)
Adjacent4(c, d) == Abs(c[1] - d[1]) + Abs(c[2] - d[2]) = 1
Adjacent8(c, d) == c # d /\ Abs(c[1] - d[1]) <= 1 /\ Abs(c[2] - d[2]) <= 1

\* the Floor cells a 4-connected flood fill over Floor reaches from the set S
RECURSIVE FloodClosure(_, _)
FloodClosure(g, S) ==
    LET more == {c \in FloorCells(g) \ S : \E d \in S : Adjacent4(c, d)}
    IN IF more = {} THEN S ELSE FloodClosure(g, S \cup more)

FloodFrom(g, c) == IF c \in FloorCells(g) THEN FloodClosure(g, {c}) ELSE {}

\* the number of 4-connected Floor components
NumComponents(g) == Cardinality({FloodFrom(g, c) : c \in FloorCells(g)})

Returned == pc = "done"

C2_BorderIsIndestructible ==
    Returned => \A c \in GridCells(grid) :
                    OnOuterRing(grid, c) => At(grid, c[1], c[2]) = "IW"

C2_Witness ==
    /\ Returned
    /\ params.enforce_connected_floor
    /\ placed # <<>>
    /\ \E c \in GridCells(grid) : OnOuterRing(grid, c) /\ InSpawnDisk(c)

\* C3 as stated: with connectivity enforcement enabled, in the returned grid a
\* 4-connected flood fill over Floor from the first spawn's cell reaches every
\* Floor cell.
C3_FloodFromFirstSpawnCoversFloor ==
    (Returned /\ params.enforce_connected_floor /\ AllSpawns # <<>>)
        => FloorCells(grid) \subseteq FloodFrom(grid, AllSpawns[1])

\* C4 as stated, on the cells off the outer ring (C2 keeps the ring
\* IndestructibleWall): in the returned grid every such cell within the
\* protection radius of a spawn (team A's and the mirrored team B's) is Floor.
C4_SpawnDisksAreFloor ==
    Returned => \A c \in GridCells(grid) :
                    (InSpawnDisk(c) /\ ~OnOuterRing(grid, c))
                        => At(grid, c[1], c[2]) = "FL"

\* C5 as stated: in the returned grid every BreakableWall cell has a Floor
\* cell among its 8 neighbours.
C5_NoFloatingRock ==
    Returned => \A c \in GridCells(grid) :
                    At(grid, c[1], c[2]) = "WL"
                        => \E d \in FloorCells(grid) : Adjacent8(c, d)

\* C6: at every point of a prefab pass no two committed reservation rectangles
\* share a grid cell.
C6_ReservationsDisjoint ==
    \A i, j \in 1..Len(reserved_rects) :
        i < j => RectCells(reserved_rects[i]) \cap RectCells(reserved_rects[j]) = {}

C6_Witness ==
    /\ Len(reserved_rects) >= 3
    /\ \E i, j \in 1..Len(reserved_rects) :
          i < j /\ reserved_rects[i][3] + 1 = reserved_rects[j][1]

\* C7 as stated: for every protection radius >= 0, no committed reservation
\* rectangle holds a cell of a protection disk, and no anchor lies in one.
C7_ReservationsAvoidDisks ==
    params.spawn_clear_radius >= 0
        => \A i \in 1..Len(placed) :
              /\ ~InSpawnDisk(<<placed[i].x, placed[i].y>>)
              /\ \A c \in RectCells(placed[i].rect) : ~InSpawnDisk(c)

\* C8 as stated: no prefab of the Feature pass reserves or patches a cell
\* inside the reservation rectangle of a prefab of the Structure pass.
C8_FeatureAvoidsStructure ==
    \A i, j \in 1..Len(placed) :
        (placed[i].category = "STRUCTURE" /\ placed[j].category = "FEATURE")
            => (RectCells(placed[j].rect) \cup placed[j].written)
                   \cap RectCells(placed[i].rect) = {}

\* C8 amended: within one generation run, two prefabs placed in the same pass
\* never reserve a common cell; the Feature pass starts from an empty
\* reservation list and may place inside a Structure reservation.
C8_SamePassNeverOverlap ==
    \A i, j \in 1..Len(placed) :
        (i < j /\ placed[i].category = placed[j].category)
            => RectCells(placed[i].rect) \cap RectCells(placed[j].rect) = {}

C8_Witness ==
    /\ Returned
    /\ \E i, j \in 1..Len(placed) : i < j /\ placed[i].category = "STRUCTURE"
                                          /\ placed[j].category = "STRUCTURE"
    /\ \E i, j \in 1..Len(placed) : i < j /\ placed[i].category = "FEATURE"
                                          /\ placed[j].category = "FEATURE"

\* C9 as stated: every iteration of the merge loop of connectAllRegions
\* strictly decreases the number of 4-connected Floor components.
C9_MergeIterationDecreases ==
    [][mergeIters' = mergeIters + 1 => NumComponents(grid') < NumComponents(grid)]_vars

\* C10: once the base terrain exists, a cell that is IndestructibleWall stays
\* IndestructibleWall through every later step of the run.
C10_IndestructibleStays ==
    [][(pc # "ca" /\ run' = run)
          => \A c \in GridCells(grid) :
                At(grid, c[1], c[2]) = "IW" => At(grid', c[1], c[2]) = "IW"]_vars

C10_Witness ==
    /\ Returned
    /\ \E c \in GridCells(grid) : OnOuterRing(grid, c) /\ InSpawnDisk(c)
    /\ \E i \in 1..Len(placed) : placed[i].spared # {}

\* C11: a loaded prefab rotated four times by 90 degrees clockwise equals the
\* original: same size, same reservation, same match token at every position
\* and the same patch list (offsets and tiles, in order).
C11_FourRotationsRestore ==
    probe.turns = 4
        => /\ probe.cur.size = probe.original.size
           /\ probe.cur.reserve = probe.original.reserve
           /\ probe.cur.before = probe.original.before
           /\ probe.cur.after = probe.original.after
           /\ probe.cur = probe.original

C11_Witness ==
    /\ probe.turns = 4
    /\ probe.original.size[1] # probe.original.size[2]
    /\ probe.original.reserve # probe.original.size
    /\ \E i \in 1..Len(probe.original.after) : probe.original.after[i].x >= probe.original.size[1]
    /\ _rotate_prefab_cw(probe.original) # probe.original
    /\ _rotate_prefab_cw(_rotate_prefab_cw(probe.original)) # probe.original

Manhattan(c, d) == Abs(c[1] - d[1]) + Abs(c[2] - d[2])

\* the path of _fallback_path so far begins at start, moves one 4-adjacent
\* step nearer to the goal each time, and on return ends at the goal with
\* Manhattan-distance(start, goal) + 1 cells
FallbackPathShape ==
    /\ probe.path[1] = probe.a
    /\ probe.path[Len(probe.path)] = probe.at
    /\ \A i \in 1..(Len(probe.path) - 1) :
          /\ Adjacent4(probe.path[i], probe.path[i + 1])
          /\ Manhattan(probe.path[i + 1], probe.b) = Manhattan(probe.path[i], probe.b) - 1
    /\ probe.returned
          => /\ probe.path[Len(probe.path)] = probe.b
             /\ Len(probe.path) = Manhattan(probe.a, probe.b) + 1

\* C12: for every start, every goal and every sequence of draws the greedy
\* line walk terminates, and the path it returns begins at start, ends at
\* goal, moves one 4-adjacent step toward the goal each time and has
\* Manhattan-distance(start, goal) + 1 cells.
C12_FallbackAlwaysSucceeds == []FallbackPathShape /\ <>(probe.returned)

C12_Witness ==
    /\ probe.returned
    /\ probe.a[1] > probe.b[1] /\ probe.a[2] < probe.b[2]
    /\ Len(probe.path) >= 5
    /\ \E i \in 1..(Len(probe.path) - 2) :
          /\ probe.path[i][1] # probe.path[i + 1][1]
          /\ probe.path[i + 1][2] # probe.path[i + 2][2]
    /\ \E i \in 1..(Len(probe.path) - 2) :
          /\ probe.path[i][2] # probe.path[i + 1][2]
          /\ probe.path[i + 1][1] # probe.path[i + 2][1]

LoadFailed == params.prefabs_json_load # "ok"

\* C13: when loading the prefab library raises, generate still returns (the
\* error does not propagate), places no prefab, and its grid is the one it
\* returns for the same parameters and seed with prefabs disabled.
C13_LoadFailureIsHarmless ==
    /\ LoadFailed => (pc # "raised" /\ placed = <<>>)
    /\ (LoadFailed /\ run = 2 /\ Returned)
          => (first[1].placed = <<>> /\ grid = first[1].grid /\ spawns = first[1].spawns)

C13_Witness ==
    /\ LoadFailed /\ run = 2 /\ Returned
    /\ params.library # <<>>
    /\ params.enforce_connected_floor
    /\ Len(first[1].stages) >= 3
    /\ \E c \in GridCells(grid) : At(grid, c[1], c[2]) = "WL"

\* C14 as stated: with zero spawns, or with a width or height of 0, 1 or 2,
\* generate does not raise.
C14_DegenerateRunsComplete ==
    (\/ params.team_a_spawns = <<>>
     \/ params.width \in {0, 1, 2}
     \/ params.height \in {0, 1, 2})
        => pc # "raised"

\* C15 as stated: a call with a negative radius has the same effect on the
\* grid as the same call with radius 0, for carving, for the feature placer
\* and for the prefab pass.
C15_NegativeRadiusActsAsZero ==
    probe.call # "none" => probe.out = probe.zero

\* the cells a hazard pass may convert: Floor and outside every protection disk
EligibleCells(g) ==
    {c \in GridCells(g) :
        /\ At(g, c[1], c[2]) = "FL"
        /\ ~\E i \in 1..Len(probe.protected_centers) :
               InDisk(c, probe.protected_centers[i], probe.protected_radius)}

ChangedCells == {c \in GridCells(probe.grid) :
                    At(probe.grid, c[1], c[2]) # At(probe.before, c[1], c[2])}

AnchorFits(c) ==
    LET rs == params.library[1].reserve
        px == (rs[1] - 3) \div 2
        py == (rs[2] - 3) \div 2
    IN /\ c[1] + 3 <= 5 /\ c[2] + 3 <= 5
       /\ c[1] - px >= 0 /\ c[2] - py >= 0
       /\ c[1] + 2 + px <= 4 /\ c[2] + 2 + py <= 4

RasterBefore(c, d) == c[2] < d[2] \/ (c[2] = d[2] /\ c[1] < d[1])

DiskFloor(g, center) ==
    {c \in FloorCells(g) : InDisk(c, center, params.spawn_clear_radius)}

DisksJoined(g, a, b) ==
    \E c \in DiskFloor(g, a) : DiskFloor(g, b) \cap FloodFrom(g, c) # {}

\* C18 as stated: with connectivity enforcement enabled, once connectSpawns
\* has returned and still in the grid generate returns, the protection disk of
\* every non-root spawn is joined to the disk of the first spawn by a
\* 4-connected path of Floor cells.
C18_SpawnDisksJoined ==
    (params.enforce_connected_floor /\ pc \in {"regions", "merge", "hidden", "done"})
        => \A i \in 2..Len(AllSpawns) : DisksJoined(grid, AllSpawns[1], AllSpawns[i])

\* the labels every completed run hands to the observer before any prefab label
StageHead ==
    <<"base", "spawns">>
        \o (IF params.enforce_connected_floor THEN <<"corridors">> ELSE <<>>)
        \o <<"hidden-walls">>

PrefabLabels == {"prefab-structure", "prefab-feature"}

\* the observer saw a prefix of StageHead, then Structure placements, then
\* Feature placements
StagesInOrder ==
    LET h == Len(StageHead)
    IN /\ \A i \in 1..Len(stages) : i <= h => stages[i] = StageHead[i]
       /\ \A i \in (h + 1)..Len(stages) :
             /\ stages[i] \in PrefabLabels
             /\ params.prefabs_enabled
             /\ \A j \in (i + 1)..Len(stages) :
                   stages[i] = "prefab-feature" => stages[j] = "prefab-feature"

\* where generate stands agrees with what the observer has seen
StageMatchesNotified ==
    LET h == Len(StageHead)
    IN /\ pc = "ca" => stages = <<>>
       /\ pc = "clear" => stages = <<"base">>
       /\ pc \in {"connect", "regions", "merge"} =>
             params.enforce_connected_floor /\ stages = <<"base", "spawns">>
       /\ pc = "hidden" => stages = SubSeq(StageHead, 1, h - 1)
       /\ pc \in {"structure", "feature"} =>
             /\ params.prefabs_enabled
             /\ Len(stages) >= h
             /\ pc = "structure" =>
                   \A i \in (h + 1)..Len(stages) : stages[i] = "prefab-structure"
       /\ pc = "done" => Len(stages) >= h

StageRank(at) ==
    CASE at = "ca" -> 1
      [] at = "clear" -> 2
      [] at = "connect" -> 3
      [] at = "regions" -> 4
      [] at = "merge" -> 5
      [] at = "hidden" -> 6
      [] at = "structure" -> 7
      [] at = "feature" -> 8
      [] OTHER -> 9

\* C19: the stages run and notify the observer in the order base terrain,
\* spawn clearing, corridors (connection and region merge, only with
\* enforcement enabled), hidden-wall conversion (in every completed run), then
\* Structure and Feature prefabs (only with prefabs enabled); no stage runs
\* before an earlier one.
C19_StagesInFixedOrder ==
    /\ [](StagesInOrder /\ StageMatchesNotified)
    /\ [][StageRank(pc') >= StageRank(pc)]_vars

C19_Witness ==
    /\ pc = "done"
    /\ stages = <<"base", "spawns", "corridors", "hidden-walls",
                  "prefab-structure", "prefab-feature">>

\* the in-bounds cells around c, diagonals included
Around(g, c) ==
    {d \in GridCells(g) :
        d # c /\ d[1] - c[1] \in -1..1 /\ d[2] - c[2] \in -1..1}

HiddenWall(g, c) ==
    /\ At(g, c[1], c[2]) = "WL"
    /\ \A d \in Around(g, c) : At(g, d[1], d[2]) # "FL"

\* C20: the hidden-wall conversion turns exactly the BreakableWall cells with
\* no Floor among their in-bounds 8 neighbours into IndestructibleWall, leaves
\* every other cell as it was, and afterwards every BreakableWall cell has a
\* Floor 8-neighbour.
C20_HiddenWallsConverted ==
    [][pc = "hidden" =>
        \A c \in GridCells(grid) :
            /\ HiddenWall(grid, c) => At(grid', c[1], c[2]) = "IW"
            /\ ~HiddenWall(grid, c) => At(grid', c[1], c[2]) = At(grid, c[1], c[2])
            /\ At(grid', c[1], c[2]) = "WL" =>
                  \E d \in Around(grid', c) : At(grid', d[1], d[2]) = "FL"]_vars

C20_Witness ==
    /\ pc = "done"
    /\ ~params.prefabs_enabled
    /\ \E c \in GridCells(grid) :
          /\ c[1] \in 1..(GridW(grid) - 2) /\ c[2] \in 1..(GridH(grid) - 2)
          /\ At(grid, c[1], c[2]) = "IW"
    /\ \E c \in GridCells(grid) : At(grid, c[1], c[2]) = "WL"

\* the spawn lists generate builds from the parameters (its first statements)
SpawnsBuilt == pc # "ca"

\* C21: with mirroring enabled team B's list has the length and order of team
\* A's and its i-th spawn is (width-1-x, y) of team A's i-th spawn (x, y); with
\* mirroring disabled team B's list is empty; no stage changes either list.
C21_TeamBMirrorsTeamA ==
    /\ [](SpawnsBuilt =>
            /\ spawns.team1 = params.team_a_spawns
            /\ params.mirror_spawns =>
                  /\ Len(spawns.team2) = Len(spawns.team1)
                  /\ \A i \in 1..Len(spawns.team1) :
                        spawns.team2[i] = <<params.width - 1 - spawns.team1[i][1],
                                            spawns.team1[i][2]>>
            /\ ~params.mirror_spawns => spawns.team2 = <<>>)
    /\ [][SpawnsBuilt => spawns' = spawns]_vars

C21_Witness ==
    /\ pc = "done"
    /\ params.mirror_spawns
    /\ Len(spawns.team2) = 2
    /\ spawns.team2[2] = <<params.width - 2, 3>>
    /\ Len(stages) > 4

RowCount(b) == IF b.t = "list" THEN Len(b.v) ELSE -1

IsPair(x) == x.t = "list" /\ Len(x.v) = 2

\* an entry the claim calls malformed
EntryMalformed(it) ==
    LET reserve == IF it.reserve.t = "absent" THEN it.size ELSE it.reserve
    IN \/ it.category.s \notin {"STRUCTURE", "FEATURE"}
       \/ ~IsPair(it.size)
       \/ ~IsPair(reserve)
       \/ /\ IsPair(it.size) /\ IsPair(reserve)
          /\ \/ reserve.v[1].n < it.size.v[1].n
             \/ reserve.v[2].n < it.size.v[2].n
       \/ /\ IsPair(it.size)
          /\ \/ RowCount(it.before) # it.size.v[2].n
             \/ \E i \in 1..RowCount(it.before) :
                   RowCount(it.before.v[i]) # it.size.v[1].n

DocMalformed(doc) ==
    \/ ~doc.islist
    \/ \E i \in 1..Len(doc.items) : doc.items[i].isdict /\ EntryMalformed(doc.items[i])

\* C22: loading fails with an error and returns no prefab list whenever the
\* top-level prefabs value is not a list or an entry has an invalid category,
\* a size or reserve that is not a 2-element list, a reserve smaller than the
\* size in either dimension, or a before grid whose row count or row length
\* differs from the size.
C22_MalformedLibraryFails ==
    (probe.called /\ DocMalformed(probe.doc))
        => (probe.result.raised # "" /\ probe.result.prefabs = <<>>)

C22_Witness ==
    /\ probe.called
    /\ Len(probe.doc.items) = 2
    /\ probe.doc.items[1] = GoodItem
    /\ probe.doc.items[2].size = JList(<<JInt(2), JInt(1)>>)
    /\ probe.doc.items[2].reserve = JList(<<JInt(1), JInt(1)>>)
    /\ probe.doc.items[2].before = BeforeRows(2, 1)
    /\ probe.result.raised = "ValueError"
    /\ probe.result.prefabs = <<>>

\* generate holds a grid: the base terrain has been built
GridBuilt == pc \notin {"ca", "idle"} /\ grid # <<>>

\* C23: in every state of a generation run, from the base terrain to the
\* returned grid, every cell holds one of the six valid tile kinds and the
\* grid keeps its width x height shape, whatever tile names the patches carry.
C23_OnlyValidTiles ==
    GridBuilt =>
        /\ Len(grid) = params.height
        /\ \A y \in 1..Len(grid) :
              /\ Len(grid[y]) = params.width
              /\ \A x \in 1..Len(grid[y]) : grid[y][x] \in VALID_TILES

C23_Witness ==
    /\ pc = "done"
    /\ \E i \in 1..Len(placed) :
          /\ placed[i].id = "odd"
          /\ placed[i].written # {}
    /\ \E c \in GridCells(grid) : At(grid, c[1], c[2]) = "HO"

IsWall(t) == t \in {"WL", "IW"}

\* the walls among the 8 neighbours of c, every neighbour off the grid counted
WallsAround(g, c) ==
    (8 - Cardinality(Around(g, c)))
        + Cardinality({d \in Around(g, c) : IsWall(At(g, d[1], d[2]))})

\* C24: a smoothing pass computes every cell that is not IndestructibleWall
\* from the grid as it was before the pass: with n the number of Wall or
\* IndestructibleWall cells among its 8 neighbours, neighbours off the grid
\* counted as walls, a Wall stays Wall iff n >= deathLimit and else becomes
\* Floor, a Floor becomes Wall iff n >= birthLimit and else stays Floor.
C24_SmoothingFromSnapshot ==
    (probe.at = "border") =>
        \A c \in GridCells(probe.before) :
            LET old == At(probe.before, c[1], c[2])
                new == At(probe.grid, c[1], c[2])
                n == WallsAround(probe.before, c)
            IN /\ old = "WL" => new = (IF n >= probe.death_limit THEN "WL" ELSE "FL")
               /\ old = "FL" => new = (IF n >= probe.birth_limit THEN "WL" ELSE "FL")
               /\ old = "IW" => new = "IW"

C24_Witness ==
    /\ probe.at = "border"
    /\ probe.passes = 2
    /\ \E c \in GridCells(probe.before) :
          At(probe.before, c[1], c[2]) = "WL" /\ At(probe.grid, c[1], c[2]) = "FL"
    /\ \E c \in GridCells(probe.before) :
          At(probe.before, c[1], c[2]) = "FL" /\ At(probe.grid, c[1], c[2]) = "WL"
    /\ probe.grid # _ca_step_in_place(probe.before, probe.birth_limit, probe.death_limit)

\* the cells that are in bounds and not IndestructibleWall
OpenCells(g) == {c \in GridCells(g) : At(g, c[1], c[2]) # "IW"}

\* the cells reached from the set S by 4-adjacent steps onto open cells
RECURSIVE ReachClosure(_, _)
ReachClosure(g, S) ==
    LET more == {c \in OpenCells(g) \ S : \E d \in S : Adjacent4(c, d)}
    IN IF more = {} THEN S ELSE ReachClosure(g, S \cup more)

Reachable(g, a, b) == b \in ReachClosure(g, {a})

AStarPathShape ==
    probe.at = "path" =>
        /\ probe.path # <<>>
        /\ probe.path[1] = probe.start
        /\ probe.path[Len(probe.path)] = probe.goal
        /\ \A i \in 1..(Len(probe.path) - 1) :
              /\ Adjacent4(probe.path[i], probe.path[i + 1])
              /\ probe.path[i] \in GridCells(probe.grid)
              /\ probe.path[i + 1] \in GridCells(probe.grid)
        /\ \A i \in 2..Len(probe.path) : probe.path[i] \in OpenCells(probe.grid)

\* C25: the path search terminates; a path it returns starts at start, ends at
\* goal, steps between 4-adjacent cells in bounds and holds no
\* IndestructibleWall after the start; it reports failure only when the goal
\* cannot be reached from start through cells that are not IndestructibleWall.
C25_PathSearchSoundAndComplete ==
    /\ [](AStarPathShape)
    /\ [](probe.at = "None" => ~Reachable(probe.grid, probe.start, probe.goal))
    /\ <>(probe.at \in {"path", "None"})

C25_Witness ==
    /\ probe.at = "path"
    /\ Len(probe.path) >= 4
    /\ \E i \in 2..Len(probe.path) : At(probe.grid, probe.path[i][1], probe.path[i][2]) = "WL"
    /\ \E c \in GridCells(probe.grid) :
          /\ ~OnOuterRing(probe.grid, c)
          /\ At(probe.grid, c[1], c[2]) = "IW"

\* the probability draw discards the prefab chosen for the size at hand:
\* random() > probability for the draw after the one that chose it
DrawRejectsChosen ==
    /\ PassTry.chosen # <<>>
    /\ RandomGt(NextRng(NextRng(rng)), PassTry.chosen[1].probability, 100)

\* C26: when the probability draw rejects the prefab chosen at a position the
\* placement is discarded with no effect: no grid cell changes, no reservation
\* is committed, the count stays, the observer is not notified and the scan
\* stays at the anchor; a prefab with probability 1.0 is never rejected and
\* costs no draw beyond the one that chose it.
C26_RejectionHasNoEffect ==
    [][InSizeLoop =>
        /\ DrawRejectsChosen =>
              /\ grid' = grid
              /\ reserved_rects' = reserved_rects
              /\ applied' = applied
              /\ placed' = placed
              /\ stages' = stages
              /\ scan' = scan /\ pc' = pc
        /\ (PassTry.chosen # <<>> /\ PassTry.chosen[1].probability = 100) =>
              /\ rng' = NextRng(rng)
              /\ placed' # placed \/ pc' = "raised"]_vars

C26_Witness ==
    /\ probe.outcome = "reject"
    /\ pc = "feature"
    /\ \E i \in 1..Len(placed) : placed[i].id = "pillar"

\* the placements of a category, and the labels the observer got for it
PlacedOf(category) == {i \in 1..Len(placed) : placed[i].category = category}
NotifiedOf(label) == {i \in 1..Len(stages) : stages[i] = label}

\* C27: in a prefab pass each grid position is the anchor of at most one
\* committed prefab, the placed count equals the number of committed
\* reservation rectangles, and the observer is notified exactly once per
\* committed placement.
C27_OnePlacementPerAnchor ==
    /\ \A i, j \in 1..Len(placed) :
          (i < j /\ placed[i].category = placed[j].category)
              => <<placed[i].x, placed[i].y>> # <<placed[j].x, placed[j].y>>
    /\ pc \in {"structure", "feature"} =>
          /\ applied = Len(reserved_rects)
          /\ applied = Cardinality(PlacedOf(PassCategory))
          /\ \A k \in 1..applied :
                \E i \in PlacedOf(PassCategory) : placed[i].rect = reserved_rects[k]
    /\ Cardinality(NotifiedOf("prefab-structure")) = Cardinality(PlacedOf("STRUCTURE"))
    /\ Cardinality(NotifiedOf("prefab-feature")) = Cardinality(PlacedOf("FEATURE"))

C27_Witness ==
    /\ pc = "feature"
    /\ applied >= 2
    /\ Cardinality(PlacedOf("STRUCTURE")) >= 2
    /\ \E i \in PlacedOf("STRUCTURE"), j \in PlacedOf("FEATURE") :
          <<placed[i].x, placed[i].y>> = <<placed[j].x, placed[j].y>>

Hazards == {"WA", "HO", "SP"}

\* C28: placeFeatures changes only cells that were Floor and outside every
\* protection disk when the call began, each to Water, Hole or Spike; a cell
\* an earlier hazard pass converted is never changed by a later pass, and
\* every non-Floor or protected cell is left as it was.
C28_FeaturesTouchOnlyEligibleFloor ==
    \A c \in GridCells(probe.orig) :
        /\ At(probe.grid, c[1], c[2]) # At(probe.orig, c[1], c[2]) =>
              /\ c \in EligibleCells(probe.orig)
              /\ At(probe.grid, c[1], c[2]) \in Hazards
        /\ At(probe.before, c[1], c[2]) # "FL" =>
              At(probe.grid, c[1], c[2]) = At(probe.before, c[1], c[2])

C28_Witness ==
    /\ probe.stage = "spikes"
    /\ \A t \in Hazards : \E c \in GridCells(probe.grid) : At(probe.grid, c[1], c[2]) = t
    /\ \E c \in GridCells(probe.orig) :
          /\ At(probe.orig, c[1], c[2]) = "FL"
          /\ c \notin EligibleCells(probe.orig)
    /\ \E c \in GridCells(probe.orig) : At(probe.orig, c[1], c[2]) = "WL"

\* the cells under the pattern of a placement
Footprint(pl) ==
    {<<x, y>> : x \in pl.x..(pl.x + pl.size[1] - 1), y \in pl.y..(pl.y + pl.size[2] - 1)}

\* C29 as stated: every cell written when a prefab is stamped lies inside the
\* pattern footprint, hence inside the grid and inside the committed
\* reservation rectangle, for every library the loader accepts and every
\* rotation variant; stamping never raises.
C29_StampStaysInFootprint ==
    /\ pc # "raised"
    /\ \A i \in 1..Len(placed) :
          /\ placed[i].written \subseteq Footprint(placed[i])
          /\ Footprint(placed[i]) \subseteq GridCells(grid)
          /\ Footprint(placed[i]) \subseteq RectCells(placed[i].rect)

\* the generator is inside connect_spawns_in_place or
\* connect_all_floor_regions_in_place
InConnectivity == pc \in {"connect", "regions", "merge"}

\* C30: connectSpawns and connectAllRegions only ever add Floor: every cell
\* they change becomes Floor, no Floor cell becomes another tile, and two
\* cells joined by a Floor path stay joined until the connectivity stage ends.
C30_ConnectivityOnlyAddsFloor ==
    [][InConnectivity =>
          /\ GridCells(grid') = GridCells(grid)
          /\ \A c \in GridCells(grid) :
                At(grid', c[1], c[2]) # At(grid, c[1], c[2]) => At(grid', c[1], c[2]) = "FL"
          /\ FloorCells(grid) \subseteq FloorCells(grid')
          /\ \A c \in FloorCells(grid) : FloodFrom(grid, c) \subseteq FloodFrom(grid', c)]_vars

\* the connectivity stage has ended after at least one merging corridor, the
\* floor is one region, and a BreakableWall cell is left beside the floor
C30_Witness ==
    /\ pc = "hidden"
    /\ stages = <<"base", "spawns", "corridors">>
    /\ mergeIters >= 1
    /\ NumComponents(grid) = 1
    /\ \E c \in GridCells(grid) : At(grid, c[1], c[2]) = "WL"

====
